---- MODULE Spec2Model ----
(***************************************************************************)
(* Query orchestration pipeline of the sustainability assistant            *)
(* (src/backend_to_docker/main.py): question classification, evidence      *)
(* retrieval with fallback, the indicator significance engine and the      *)
(* /askrag request handler.                                                *)
(*                                                                         *)
(* Text is modelled as a sequence of one-character strings so that strip,  *)
(* lower and split are computed, not assumed.  A nullable database value   *)
(* is <<>> (NULL / None) or <<v>>.  Amounts and statistics are integers    *)
(* (fixed-point, one unit = 0.1); z-scores and percentiles are kept as     *)
(* exact fractions <<numerator, denominator>>.                             *)
(***************************************************************************)
EXTENDS Integers, Sequences, FiniteSets, TLC

VARIABLES
    pc,                 \* position of the /askrag handler
    embedding_model,    \* module global: "loaded" or "none" (load failed)
    embeddings,         \* vector store table, in storage order
    lcia_rows,          \* lcia_results JOIN lcia_moduleamounts, in return order
    raw_question,       \* data.question as received
    question,           \* data.question.strip()
    document_ids,       \* data.documentIds
    indicator_ids,      \* data.indicatorIds
    raw_response,       \* what query_llm did for the classification prompt
    category,           \* classify_question's result, <<>> before it ran
    chunks,             \* the evidence list
    product_info,
    indicator_info,
    product_indicators,
    prompt,
    response,           \* the JSONResponse returned, status 0 before it exists
    query_logs,         \* files of the query_logs directory: {file name: record}
    query_log,          \* the handler's query_log as last handed to log_query
    log_path,           \* what that log_query call returned: <<>> (None) or <<name>>
    log_errors,         \* "Failed to save query log" lines written by QueryLogger
    log_calls,          \* the records the handler passed to log_query, in order
    now,                \* int(time.time())
    calls,              \* external calls made so far, in order
    fetched_chunks,     \* content of the debug file fetched_chunks.txt
    sig_max,            \* max_indicators of a direct engine call
    sig_ids,            \* document_ids of a direct engine call
    sig_result,         \* what the direct engine call returned
    sig_again           \* what the same call returned when it was repeated

vars ==
    << pc, embedding_model, embeddings, lcia_rows, raw_question, question, document_ids,
       indicator_ids, raw_response, category, chunks, product_info,
       indicator_info, product_indicators, prompt, response, query_logs,
       query_log, log_path, log_errors, log_calls, now,
       calls, fetched_chunks, sig_max, sig_ids, sig_result, sig_again >>

(***************************************************************************)
(* Text                                                                    *)
(***************************************************************************)
Whitespace ==
    {" ", "\n", "\t"}

UpperChars ==
    <<"A", "B", "C", "D", "E", "F", "G", "H", "I", "J", "K", "L", "M", "N", "O", "P", "Q", "R", "S", "T", "U", "V", "W", "X", "Y", "Z">>

LowerChars ==
    <<"a", "b", "c", "d", "e", "f", "g", "h", "i", "j", "k", "l", "m", "n", "o", "p", "q", "r", "s", "t", "u", "v", "w", "x", "y", "z">>

LowerChar(c) ==
    IF \E i \in 1..Len(UpperChars) : UpperChars[i] = c
    THEN LowerChars[CHOOSE i \in 1..Len(UpperChars) : UpperChars[i] = c]
    ELSE c

UpperChar(c) ==
    IF \E i \in 1..Len(LowerChars) : LowerChars[i] = c
    THEN UpperChars[CHOOSE i \in 1..Len(LowerChars) : LowerChars[i] = c]
    ELSE c

\* str.lower()
Lower(s) ==
    [i \in 1..Len(s) |-> LowerChar(s[i])]

\* str.upper(), used only to build inputs
Upper(s) ==
    [i \in 1..Len(s) |-> UpperChar(s[i])]

\* str.strip(): drops leading and trailing whitespace
Strip(s) ==
    LET inked == {i \in 1..Len(s) : s[i] \notin Whitespace}
    IN  IF inked = {} THEN <<>>
        ELSE LET lo == CHOOSE i \in inked : \A j \in inked : i <= j
                 hi == CHOOSE i \in inked : \A j \in inked : j <= i
             IN  SubSeq(s, lo, hi)

RECURSIVE SplitFrom(_, _, _, _)
SplitFrom(s, i, cur, acc) ==
    IF i > Len(s)
    THEN IF cur = <<>> THEN acc ELSE Append(acc, cur)
    ELSE IF s[i] \in Whitespace
         THEN SplitFrom(s, i + 1, <<>>, IF cur = <<>> THEN acc ELSE Append(acc, cur))
         ELSE SplitFrom(s, i + 1, Append(cur, s[i]), acc)

\* str.split() without arguments: the maximal runs of non-whitespace
Split(s) ==
    SplitFrom(s, 1, <<>>, <<>>)

\* needle in hay (substring test)
Contains(hay, needle) ==
    \E i \in 0..(Len(hay) - Len(needle)) :
        \A j \in 1..Len(needle) : hay[i + j] = needle[j]

\* SQL: hay ILIKE '%needle%'
ILike(hay, needle) ==
    Contains(Lower(hay), Lower(needle))

Range(s) ==
    {s[i] : i \in 1..Len(s)}

\* s[:n]
Take(s, n) ==
    IF n <= 0 THEN <<>> ELSE SubSeq(s, 1, IF n < Len(s) THEN n ELSE Len(s))

(***************************************************************************)
(* Category labels                                                         *)
(***************************************************************************)
theory_only ==
    <<"t", "h", "e", "o", "r", "y", "_", "o", "n", "l", "y">>

comparison_question ==
    <<"c", "o", "m", "p", "a", "r", "i", "s", "o", "n", "_", "q", "u", "e", "s", "t", "i", "o", "n">>

hybrid_theory_comparison ==
    <<"h", "y", "b", "r", "i", "d", "_", "t", "h", "e", "o", "r", "y", "_", "c", "o", "m", "p", "a", "r", "i", "s", "o", "n">>

new_product_query ==
    <<"n", "e", "w", "_", "p", "r", "o", "d", "u", "c", "t", "_", "q", "u", "e", "r", "y">>

indicator_explanation ==
    <<"i", "n", "d", "i", "c", "a", "t", "o", "r", "_", "e", "x", "p", "l", "a", "n", "a", "t", "i", "o", "n">>

recommendation_query ==
    <<"r", "e", "c", "o", "m", "m", "e", "n", "d", "a", "t", "i", "o", "n", "_", "q", "u", "e", "r", "y">>

product_followup ==
    <<"p", "r", "o", "d", "u", "c", "t", "_", "f", "o", "l", "l", "o", "w", "u", "p">>

unknown ==
    <<"u", "n", "k", "n", "o", "w", "n">>

valid_labels ==
    { theory_only, comparison_question, hybrid_theory_comparison,
      new_product_query, indicator_explanation, recommendation_query,
      product_followup }

(***************************************************************************)
(* The generation capability, as classify_question sees it.  A call either *)
(* returns text, returns a non-string (a JSON null in the "response"       *)
(* field) or raises RuntimeError.                                          *)
(***************************************************************************)
ErrorTexts ==
    {"timeout", "connection refused"}

LlmText(t) ==
    [kind |-> "text", text |-> t, err |-> ""]

LlmNonString ==
    [kind |-> "nonstring", text |-> <<>>, err |-> ""]

LlmRaise(e) ==
    [kind |-> "raise", text |-> <<>>, err |-> e]

\* query_llm's default when the reply has no "response" field
NoAnswerReturned ==
    <<"N", "o", " ", "a", "n", "s", "w", "e", "r", " ", "r", "e", "t", "u", "r", "n", "e", "d", ".">>

\* ways a model dresses up a label
LabelVariants(l) ==
    { l,
      <<" ">> \o l \o <<"\n">>,
      <<"\t">> \o Upper(l),
      [l EXCEPT ![1] = UpperChar(l[1])],
      l \o <<".">>,
      <<"A", ":", " ">> \o l,
      SubSeq(l, 1, Len(l) - 1),
      SubSeq(l, 1, 3) \o <<" ">> \o SubSeq(l, 4, Len(l)) }

ClassifierResponses ==
    {LlmText(t) : t \in UNION {LabelVariants(l) : l \in valid_labels \cup {unknown}}}
    \cup {LlmText(<<>>), LlmText(<<" ", "\n">>), LlmText(NoAnswerReturned), LlmNonString}
    \cup {LlmRaise(e) : e \in ErrorTexts}

\* the responses the request pipeline is explored with: every label, one
\* dressed-up label, one unmapped text, a non-string and a failure
PipelineResponses ==
    {LlmText(l) : l \in valid_labels}
    \cup { LlmText(<<" ">> \o Upper(product_followup) \o <<"\n">>),
           LlmText(NoAnswerReturned), LlmNonString, LlmRaise("timeout") }

\* classify_question accepting any response that merely contains a label
classify_question_lenient(r) ==
    IF r.kind = "text"
    THEN LET label == Lower(Strip(r.text))
         IN  IF \E l \in valid_labels : Contains(label, l)
             THEN [raised |-> FALSE,
                   label  |-> CHOOSE l \in valid_labels : Contains(label, l)]
             ELSE [raised |-> FALSE, label |-> unknown]
    ELSE [raised |-> FALSE, label |-> unknown]

\* classify_question: the label, or that the call raised
classify_question(r) ==
    IF r.kind = "text"
    THEN LET label == Lower(Strip(r.text))
         IN  IF label \in valid_labels
             THEN [raised |-> FALSE, label |-> label]
             ELSE [raised |-> FALSE, label |-> unknown]
    ELSE \* query_llm raised, or .strip() raised on a non-string: except Exception
         [raised |-> FALSE, label |-> unknown]

(***************************************************************************)
(* Bounds of the explored inputs                                           *)
(***************************************************************************)
MaxTheoryChunks == 6

MaxEpdChunks == 3

MaxRows == 3

MaxIndicators == 3

(***************************************************************************)
(* Reference data (owned by the offline jobs, read-only here)              *)
(***************************************************************************)
CatBricks ==
    <<"Mineral building products", "Bricks", "Clay bricks">>

CatWood ==
    <<"Wood", "Solid wood", "Timber">>

\* products table: P9 has evidence and amounts but no products row
ProductsTable ==
    << [process_id |-> "P1",
        name_en |-> <<"C", "l", "a", "y", " ", "B", "r", "i", "c", "k">>,
        description_en |-> <<"w", "a", "l", "l", " ", "t", "i", "l", "e">>,
        category |-> CatBricks],
       [process_id |-> "P2",
        name_en |-> <<"R", "o", "o", "f", " ", "b", "a", "t", "t", "e", "n">>,
        description_en |-> <<"t", "i", "m", "b", "e", "r">>,
        category |-> CatWood] >>

\* indicators table
IndicatorsTable ==
    << [key |-> "GWP", name |-> "Global warming potential",
        short_description |-> "greenhouse gases", long_description |-> "long"],
       [key |-> "ODP", name |-> "Ozone depletion potential",
        short_description |-> "ozone layer", long_description |-> "long"],
       [key |-> "PERT", name |-> "Primary energy, renewable",
        short_description |-> "renewable energy", long_description |-> "long"] >>

Stat(key, module, cat, mean, std_dev, min, max) ==
    [indicator_key |-> key, module |-> module, category |-> cat,
     mean |-> mean, std_dev |-> std_dev, min |-> min, max |-> max]

\* indicator_statistics table (one unit = 0.1): regular rows, a zero and a
\* NULL std-dev, and a row whose min/max were never filled in
StatisticsTable ==
    << Stat("GWP",  "A1-A3", CatBricks, <<100>>, <<50>>, <<0>>, <<300>>),
       Stat("GWP",  "C4",    CatBricks, <<20>>,  <<10>>, <<0>>, <<50>>),
       Stat("ODP",  "A1-A3", CatBricks, <<40>>,  <<20>>, <<0>>, <<100>>),
       Stat("ODP",  "C4",    CatBricks, <<10>>,  <<0>>,  <<10>>, <<10>>),
       Stat("PERT", "A1-A3", CatBricks, <<60>>,  <<30>>, <<0>>, <<200>>),
       Stat("PERT", "C4",    CatBricks, <<5>>,   <<>>,   <<5>>, <<5>>),
       Stat("AP",   "A1-A3", CatBricks, <<30>>,  <<10>>, <<>>,  <<>>),
       Stat("GWP",  "A1-A3", CatWood,   <<50>>,  <<25>>, <<-100>>, <<200>>) >>

(***************************************************************************)
(* Ordered dictionaries (Python dict: insertion order, update in place)    *)
(* as sequences of [k, v]                                                  *)
(***************************************************************************)
DHas(d, k) ==
    \E i \in 1..Len(d) : d[i].k = k

DGet(d, k) ==
    d[CHOOSE i \in 1..Len(d) : d[i].k = k].v

DPut(d, k, v) ==
    IF DHas(d, k)
    THEN [i \in 1..Len(d) |-> IF d[i].k = k THEN [k |-> k, v |-> v] ELSE d[i]]
    ELSE Append(d, [k |-> k, v |-> v])

(***************************************************************************)
(* Vector store                                                            *)
(***************************************************************************)
\* a store with nT theory chunks and n1 / n2 product-evidence chunks; each
\* row has its chunk, its metadata, its distance to the question vector and
\* the length of its text
BuildStore(nT, n1, n2) ==
    LET TheoryRow(i) ==
            [chunk |-> <<"T", i>>, source |-> "theory", process_id |-> "",
             dist |-> (3 * i) % 7, len |-> 40 * i]
        EpdRow(pid, i) ==
            [chunk |-> <<pid, i>>, source |-> "epd", process_id |-> pid,
             dist |-> 10 + ((2 * i) % 5) + (IF pid = "P1" THEN 0 ELSE 5),
             len |-> 25 * i]
    IN  [i \in 1..nT |-> TheoryRow(i)]
        \o [i \in 1..n1 |-> EpdRow("P1", i)]
        \o [i \in 1..n2 |-> EpdRow("P2", i)]

Stores ==
    { BuildStore(nT, n1, n2) :
        nT \in {0, MaxTheoryChunks}, n1 \in {0, MaxEpdChunks - 1, MaxEpdChunks}, n2 \in {0, 1} }

RECURSIVE InsertByDist(_, _)
InsertByDist(sorted, row) ==
    IF sorted = <<>> THEN <<row>>
    ELSE IF Head(sorted).dist <= row.dist
         THEN <<Head(sorted)>> \o InsertByDist(Tail(sorted), row)
         ELSE <<row>> \o sorted

RECURSIVE OrderByDist(_)
\* ORDER BY embedding <-> question vector
OrderByDist(rows) ==
    IF rows = <<>> THEN <<>>
    ELSE InsertByDist(OrderByDist(SubSeq(rows, 1, Len(rows) - 1)), rows[Len(rows)])

ChunksOf(rows) ==
    [i \in 1..Len(rows) |-> rows[i].chunk]

\* get_theory_chunks: up = FALSE is a connection or query error, which the
\* function's except clause turns into []
get_theory_chunks(limit, up) ==
    IF ~up THEN <<>>
    ELSE LET match(row) == row.source = "theory"
         IN  ChunksOf(Take(OrderByDist(SelectSeq(embeddings, match)), limit))

\* get_epd_chunks with an embedding
get_epd_chunks(ids, limit, up) ==
    IF ~up THEN <<>>
    ELSE LET match(row) == /\ row.source = "epd"
                           /\ (ids # <<>> => row.process_id \in Range(ids))
         IN  ChunksOf(Take(OrderByDist(SelectSeq(embeddings, match)), limit))

(***************************************************************************)
(* Relational lookups.  up = FALSE: get_db_connection or a statement       *)
(* raised; every lookup catches it and returns its empty value.            *)
(***************************************************************************)
\* get_product_info
get_product_info(ids, up) ==
    IF ids = <<>> THEN <<>>
    ELSE IF ~up THEN <<>>
    ELSE LET wanted(row) == row.process_id \in Range(ids)
         IN  SelectSeq(ProductsTable, wanted)

\* get_indicator_info
get_indicator_info(ids, up) ==
    IF ids = <<>> THEN <<>>
    ELSE IF ~up THEN <<>>
    ELSE LET wanted(row) == row.key \in Range(ids)
         IN  SelectSeq(IndicatorsTable, wanted)

\* rows of lcia_results JOIN lcia_moduleamounts WHERE process_id IN ids
LciaRowsOf(ids) ==
    LET wanted(row) == row.process_id \in Range(ids)
    IN  SelectSeq(lcia_rows, wanted)

RECURSIVE CollectModules(_, _, _)
\* the loops that fill {pid: {indicator_key: {"unit", "modules": {module: amount}}}};
\* a row's amount is stored if its module is non-empty and, with skip_null,
\* its amount is not NULL
CollectModules(rows, acc, skip_null) ==
    IF rows = <<>> THEN acc
    ELSE LET row   == Head(rows)
             acc1  == IF DHas(acc, row.process_id) THEN acc
                      ELSE DPut(acc, row.process_id, <<>>)
             inds  == DGet(acc1, row.process_id)
             inds1 == IF DHas(inds, row.indicator_key) THEN inds
                      ELSE DPut(inds, row.indicator_key,
                                [unit |-> row.unit, modules |-> <<>>])
             data  == DGet(inds1, row.indicator_key)
             data1 == IF row.module # "" /\ (skip_null => row.amount # <<>>)
                      THEN [data EXCEPT !.modules = DPut(@, row.module, row.amount)]
                      ELSE data
         IN  CollectModules(Tail(rows),
                            DPut(acc1, row.process_id,
                                 DPut(inds1, row.indicator_key, data1)),
                            skip_null)

\* get_product_indicators (the exchanges tables hold no rows in this model):
\* every module amount of the selected indicators, NULL amounts included
get_product_indicators(ids, indicator_keys, up) ==
    IF ids = <<>> \/ indicator_keys = <<>> THEN <<>>
    ELSE IF ~up THEN <<>>
    ELSE LET wanted(row) == row.indicator_key \in Range(indicator_keys)
         IN  CollectModules(SelectSeq(LciaRowsOf(ids), wanted), <<>>, FALSE)

(***************************************************************************)
(* Indicator significance engine                                           *)
(***************************************************************************)
Abs(x) ==
    IF x < 0 THEN -x ELSE x

\* a > b for fractions <<numerator, denominator>> with positive denominators
FracGT(a, b) ==
    a[1] * b[2] > b[1] * a[2]

RECURSIVE Concat(_)
Concat(ss) ==
    IF ss = <<>> THEN <<>> ELSE Head(ss) \o Concat(Tail(ss))

\* cur.fetchone() of the statistics lookup: <<>> (no row) or <<row>>
StatRow(key, module, cat) ==
    LET match(row) == /\ row.indicator_key = key
                      /\ row.module = module
                      /\ row.category = cat
    IN  Take(SelectSeq(StatisticsTable, match), 1)

\* the distance measured from zero instead of the mean
abs_deviation_from_zero(value, mean) ==
    Abs(value)

\* abs(value - mean), the numerator of the z-score
abs_deviation(value, mean) ==
    Abs(value - mean)

\* the body of the inner loop for one (indicator, module, value): the triple
\* is skipped, becomes a candidate, or the arithmetic raises (value - None)
Significance(key, module, value, unit, cat) ==
    LET sr == StatRow(key, module, cat)
    IN  IF sr = <<>> THEN [kind |-> "skip"]
        ELSE IF sr[1].mean = <<>> \/ sr[1].std_dev = <<>> \/ sr[1].std_dev = <<0>>
        THEN [kind |-> "skip"]
        ELSE LET mean       == sr[1].mean[1]
                 std_dev    == sr[1].std_dev[1]
                 z_score    == IF std_dev > 0 THEN <<abs_deviation(value, mean), std_dev>>
                               ELSE <<0, 1>>
                 range_size == IF sr[1].max # <<>> /\ sr[1].min # <<>>
                               THEN sr[1].max[1] - sr[1].min[1] ELSE 1
             IN  IF range_size > 0 /\ sr[1].min = <<>>
                 THEN [kind |-> "raise"]
                 ELSE [kind |-> "cand",
                       ind  |-> [indicator_key |-> key,
                                 module        |-> module,
                                 value         |-> value,
                                 unit          |-> unit,
                                 z_score       |-> z_score,
                                 percentile    |-> IF range_size > 0
                                                   THEN <<value - sr[1].min[1], range_size>>
                                                   ELSE <<1, 2>>,
                                 is_high       |-> value > mean,
                                 is_low        |-> value < mean]]

\* the two nested loops over one product's indicators and modules
Evaluations(indicators, cat) ==
    Concat([i \in 1..Len(indicators) |->
              [j \in 1..Len(indicators[i].v.modules) |->
                 Significance(indicators[i].k,
                              indicators[i].v.modules[j].k,
                              indicators[i].v.modules[j].v[1],
                              indicators[i].v.unit, cat)]])

IsCandidate(e) ==
    e.kind = "cand"

RECURSIVE InsertByZ(_, _)
InsertByZ(sorted, ind) ==
    IF sorted = <<>> THEN <<ind>>
    ELSE IF FracGT(ind.z_score, Head(sorted).z_score)
         THEN <<ind>> \o sorted
         ELSE <<Head(sorted)>> \o InsertByZ(Tail(sorted), ind)

RECURSIVE SortByZ(_)
\* list.sort(key=z_score, reverse=True): descending, equal keys keep their order
SortByZ(inds) ==
    IF inds = <<>> THEN <<>>
    ELSE InsertByZ(SortByZ(SubSeq(inds, 1, Len(inds) - 1)), inds[Len(inds)])

IsHigh(ind) ==
    ind.is_high

IsLow(ind) ==
    ind.is_low

\* half of the slots, rounded up
half_max_rounded_up(max_indicators) ==
    (max_indicators + 1) \div 2

\* half_max = max_indicators // 2
half_max(max_indicators) ==
    max_indicators \div 2

\* remaining_slots forgetting the low entries already taken
remaining_slots_high_only(max_indicators, selected_high, selected_low) ==
    max_indicators - Len(selected_high)

remaining_slots(max_indicators, selected_high, selected_low) ==
    max_indicators - Len(selected_high) - Len(selected_low)

\* the balanced choice among one product's sorted candidates
SelectIndicators(indicator_significance, max_indicators) ==
    LET high_indicators == SelectSeq(indicator_significance, IsHigh)
        low_indicators  == SelectSeq(indicator_significance, IsLow)
        selected_high   == Take(high_indicators, half_max(max_indicators))
        selected_low    == Take(low_indicators, half_max(max_indicators))
        slots           == remaining_slots(max_indicators, selected_high, selected_low)
        selected_keys   == {<<ind.indicator_key, ind.module>> :
                              ind \in Range(selected_high \o selected_low)}
        unselected(ind) == <<ind.indicator_key, ind.module>> \notin selected_keys
        remaining       == SelectSeq(indicator_significance, unselected)
    IN  IF slots > 0
        THEN selected_high \o Take(remaining, slots) \o selected_low
        ELSE selected_high \o selected_low

RECURSIVE BuildProductIndicators(_, _)
\* the loop that files the selected entries under their indicator key
BuildProductIndicators(selected, acc) ==
    IF selected = <<>> THEN acc
    ELSE LET ind  == Head(selected)
             acc1 == IF DHas(acc, ind.indicator_key) THEN acc
                     ELSE DPut(acc, ind.indicator_key,
                               [unit |-> ind.unit, modules |-> <<>>,
                                significance |-> <<>>,
                                name |-> <<>>, description |-> <<>>])
             data == DGet(acc1, ind.indicator_key)
         IN  BuildProductIndicators(Tail(selected),
                 DPut(acc1, ind.indicator_key,
                      [data EXCEPT !.modules = DPut(@, ind.module, <<ind.value>>),
                                   !.significance =
                                      DPut(@, ind.module,
                                           [z_score    |-> ind.z_score,
                                            percentile |-> ind.percentile,
                                            is_high    |-> ind.is_high,
                                            is_low     |-> ind.is_low])]))

\* name and short description from the indicators table, where it has the key
AttachMetadata(result) ==
    [p \in 1..Len(result) |->
       [k |-> result[p].k,
        v |-> [i \in 1..Len(result[p].v) |->
                 LET key      == result[p].v[i].k
                     found(r) == r.key = key
                     meta     == SelectSeq(IndicatorsTable, found)
                 IN  IF meta = <<>> THEN result[p].v[i]
                     ELSE [k |-> key,
                           v |-> [result[p].v[i].v EXCEPT
                                    !.name = <<meta[Len(meta)].name>>,
                                    !.description = <<meta[Len(meta)].short_description>>]]]]]

CategoryOf(pid) ==
    LET found(r) == r.process_id = pid
    IN  SelectSeq(ProductsTable, found)[1].category

HasCategory(pid) ==
    \E i \in 1..Len(ProductsTable) : ProductsTable[i].process_id = pid

\* get_statistically_important_indicators: {pid: {indicator_key: data}} as
\* ordered dictionaries; {} when the connection, a statement or the
\* arithmetic raised (the outer except clause)
get_statistically_important_indicators(ids, max_indicators, up) ==
    IF ids = <<>> THEN <<>>
    ELSE IF ~up THEN <<>>
    ELSE LET lcia_results     == CollectModules(LciaRowsOf(ids), <<>>, TRUE)
             categorised(e)   == HasCategory(e.k)
             processed        == SelectSeq(lcia_results, categorised)
             evals(e)         == Evaluations(e.v, CategoryOf(e.k))
             candidates(e)    == LET es == SelectSeq(evals(e), IsCandidate)
                                 IN  [i \in 1..Len(es) |-> es[i].ind]
             raises(e)        == e.kind = "raise"
         IN  IF \E i \in 1..Len(processed) :
                    SelectSeq(evals(processed[i]), raises) # <<>>
             THEN <<>>
             ELSE AttachMetadata(
                    [i \in 1..Len(processed) |->
                       [k |-> processed[i].k,
                        v |-> BuildProductIndicators(
                                SelectIndicators(SortByZ(candidates(processed[i])),
                                                 max_indicators), <<>>)]])

\* the (indicator key, module) entries one product has in an engine result
EntriesOf(result, pid) ==
    IF ~DHas(result, pid) THEN {}
    ELSE LET inds == DGet(result, pid)
         IN  UNION { { <<inds[i].k, inds[i].v.modules[j].k, inds[i].v.modules[j].v>> :
                         j \in 1..Len(inds[i].v.modules) } : i \in 1..Len(inds) }

(***************************************************************************)
(* Requests                                                                *)
(***************************************************************************)
QBlank ==
    <<" ", "\n", " ">>

QEpd ==
    <<"W", "h", "a", "t", " ", "i", "s", " ", "a", "n", " ", "E", "P", "D", "?">>

\* no question, blanks only, a theory question, and two questions that
\* name building materials
Questions ==
    { <<>>, QBlank, QEpd,
      <<" ", "I", "s", " ", "B", "r", "i", "c", "k", " ", "o", "r", " ", "r", "o", "o", "f", " ", "t", "i", "l", "e", " ", "b", "e", "s", "t", "?">>,
      <<"w", "o", "o", "d", " ", "p", "a", "n", "e", "l", "?", "\n">> }

DocumentIdChoices ==
    { <<>>, <<"P1">>, <<"P1", "P2">> }

IndicatorIdChoices ==
    { <<>>, <<"GWP">> }

Row(pid, key, module, amount) ==
    [process_id |-> pid, indicator_key |-> key,
     unit |-> IF key = "PERT" THEN "MJ" ELSE "kg eq.",
     module |-> module, amount |-> amount]

\* module amounts the request pipeline is explored with: none at all, or a
\* product with notable, unremarkable and statistics-less amounts
LciaFixtures ==
    { <<>>,
      << Row("P1", "GWP", "A1-A3", <<254>>),
         Row("P1", "GWP", "C1", <<5>>),
         Row("P1", "ODP", "A1-A3", <<80>>),
         Row("P1", "PERT", "A1-A3", <<60>>),
         Row("P1", "GWP", "C4", <<0>>),
         Row("P2", "GWP", "A1-A3", <<10>>),
         Row("P2", "ODP", "A1-A3", <<3>>) >> }

\* max_indicators the product_followup branch passes to the engine
FollowupMaxIndicators == 8

common_building_terms ==
    << <<"i", "n", "s", "u", "l", "a", "t", "i", "o", "n">>,
       <<"b", "r", "i", "c", "k">>,
       <<"c", "o", "n", "c", "r", "e", "t", "e">>,
       <<"w", "o", "o", "d">>,
       <<"t", "i", "m", "b", "e", "r">>,
       <<"g", "l", "a", "s", "s">>,
       <<"s", "t", "e", "e", "l">>,
       <<"a", "l", "u", "m", "i", "n", "u", "m">>,
       <<"r", "o", "o", "f">>,
       <<"t", "i", "l", "e">>,
       <<"p", "a", "n", "e", "l">>,
       <<"f", "a", "c", "a", "d", "e">>,
       <<"w", "i", "n", "d", "o", "w">> >>

\* [word for word in question.lower().split() if word in common_building_terms]
search_terms(q) ==
    LET is_term(w) == w \in Range(common_building_terms)
    IN  SelectSeq(Split(Lower(q)), is_term)

(***************************************************************************)
(* Records of what the handler did                                         *)
(***************************************************************************)
\* one external call: svc is "llm", "embedding", "store" (similarity or
\* keyword evidence query) or "db" (keyed lookup)
Call(svc, op, ids, limit, term, phase, ok, n) ==
    [svc |-> svc, op |-> op, ids |-> ids, limit |-> limit, term |-> term,
     phase |-> phase, ok |-> ok, n |-> n]

NoResponse ==
    [status |-> 0, answer |-> "", detail |-> ""]

JSONResponse(status, answer, detail) ==
    [status |-> status, answer |-> answer, detail |-> detail]

\* the query_log fields the model follows, as log_query receives them
LogRecord(error, detail) ==
    [error |-> error, detail |-> detail, classification |-> category,
     prompt |-> prompt]

\* the query_log before anything was recorded in it
NoQueryLog ==
    [error |-> "", detail |-> "", classification |-> <<>>, prompt |-> <<>>]

logvars ==
    <<query_logs, query_log, log_path, log_errors, log_calls, now>>

\* a log_query that lets the failure of the write escape
log_query_propagating(files, query_data, timestamp, ok) ==
    [raised |-> ~ok,
     path   |-> IF ok THEN <<timestamp>> ELSE <<>>,
     files  |-> IF ok THEN DPut(files, timestamp, query_data) ELSE files,
     errors |-> 0]

\* QueryLogger.log_query: the record is written to query_<date>_<timestamp>.json
\* (ok), or the write fails, the failure is logged and None is returned
log_query(files, query_data, timestamp, ok) ==
    [raised |-> FALSE,
     path   |-> IF ok THEN <<timestamp>> ELSE <<>>,
     files  |-> IF ok THEN DPut(files, timestamp, query_data) ELSE files,
     errors |-> IF ok THEN 0 ELSE 1]

\* a return that hands the record of an answered question to nobody
LogAndRespond_unlogged_answer(record, intended, ok) ==
    LET lq == log_query(query_logs, record, now, ok)
    IN  IF record.error = ""
        THEN /\ response' = intended
             /\ UNCHANGED <<query_logs, query_log, log_path, log_errors, log_calls, now>>
        ELSE /\ query_log' = record
             /\ log_calls' = Append(log_calls, record)
             /\ query_logs' = lq.files
             /\ log_path' = lq.path
             /\ log_errors' = log_errors + lq.errors
             /\ response' = intended
             /\ UNCHANGED now

\* query_logger.log_query(query_log) followed by `return JSONResponse(...)`;
\* an exception escaping the handler is answered by the framework
LogAndRespond(record, intended, ok) ==
    LET lq == log_query(query_logs, record, now, ok)
    IN  /\ query_log' = record
        /\ log_calls' = Append(log_calls, record)
        /\ query_logs' = lq.files
        /\ log_path' = lq.path
        /\ log_errors' = log_errors + lq.errors
        /\ response' = IF lq.raised THEN JSONResponse(500, "Internal Server Error", "")
                       ELSE intended
        /\ UNCHANGED now

NoChunksMsg ==
    "I couldn't find relevant information to answer your question. Try a different question or select different products."

(***************************************************************************)
(* Retrieval plans of /askrag.  t_up, e_up, db_up: whether the theory      *)
(* query, the product-evidence queries and the keyed lookups of the step   *)
(* reach their store.                                                      *)
(***************************************************************************)
TheoryQuery(limit, phase, up) ==
    LET r == get_theory_chunks(limit, up)
    IN  [chunks |-> r,
         calls  |-> <<Call("store", "theory", <<>>, limit, <<>>, phase, up, Len(r))>>]

EpdQuery(ids, limit, phase, up) ==
    LET r == get_epd_chunks(ids, limit, up)
    IN  [chunks |-> r,
         calls  |-> <<Call("store", "epd", ids, limit, <<>>, phase, up, Len(r))>>]

Min(a, b) ==
    IF a < b THEN a ELSE b

\* search_epd_by_term: products whose name or description contains the term,
\* then get_epd_chunks(None, product_ids, limit).  The embedding is None, so
\* ORDER BY compares NULL distances and the store may return any `limit`
\* matching chunks in any order.
search_epd_by_term(term, limit, db_up, e_up) ==
    LET named(row)  == ILike(row.name_en, term) \/ ILike(row.description_en, term)
        found       == Take(SelectSeq(ProductsTable, named), limit)
        product_ids == [i \in 1..Len(found) |-> found[i].process_id]
        match(row)  == row.source = "epd" /\ row.process_id \in Range(product_ids)
        matching    == Range(ChunksOf(SelectSeq(embeddings, match)))
        k           == Min(limit, Cardinality(matching))
        results     == IF ~db_up \/ product_ids = <<>> \/ ~e_up THEN {<<>>}
                       ELSE {f \in [1..k -> matching] :
                               \A i, j \in 1..k : i # j => f[i] # f[j]}
    IN  { [chunks |-> r,
           calls  |-> <<Call("store", "term", product_ids, limit, term, "plan",
                             db_up /\ (product_ids # <<>> => e_up), Len(r))>>] :
          r \in results }

DbCall(op, ids, phase, up) ==
    Call("db", op, ids, 0, <<>>, phase, up, 0)

\* if indicator_ids: indicator_info = get_indicator_info(indicator_ids)
IndicatorInfoPart(db_up) ==
    IF indicator_ids = <<>> THEN [val |-> <<>>, calls |-> <<>>]
    ELSE [val   |-> <<get_indicator_info(indicator_ids, db_up)>>,
          calls |-> <<DbCall("indicator_info", indicator_ids, "plan", db_up)>>]

\* the `if document_ids:` block of comparison_question, hybrid_theory_comparison
\* and the unknown branch
SelectedProductsPart(limit, e_up, db_up) ==
    IF document_ids = <<>>
    THEN [chunks |-> <<>>, calls |-> <<>>, pinfo |-> <<>>, pinds |-> <<>>]
    ELSE LET epd == EpdQuery(document_ids, limit, "plan", e_up)
         IN  [chunks |-> epd.chunks,
              calls  |-> epd.calls
                         \o <<DbCall("product_info", document_ids, "plan", db_up)>>
                         \o (IF indicator_ids = <<>> THEN <<>>
                             ELSE <<DbCall("product_indicators", document_ids, "plan", db_up)>>),
              pinfo  |-> <<get_product_info(document_ids, db_up)>>,
              pinds  |-> IF indicator_ids = <<>> THEN <<>>
                         ELSE <<get_product_indicators(document_ids, indicator_ids, db_up)>>]

\* the `if document_ids:` block of product_followup
FollowupProductsPart(e_up, db_up) ==
    IF document_ids = <<>>
    THEN [chunks |-> <<>>, calls |-> <<>>, pinfo |-> <<>>, pinds |-> <<>>]
    ELSE LET epd == EpdQuery(document_ids, 5, "plan", e_up)
         IN  [chunks |-> epd.chunks,
              calls  |-> epd.calls
                         \o <<DbCall("product_info", document_ids, "plan", db_up),
                              DbCall("significance", document_ids, "plan", db_up)>>,
              pinfo  |-> <<get_product_info(document_ids, db_up)>>,
              pinds  |-> <<get_statistically_important_indicators(
                              document_ids, FollowupMaxIndicators, db_up)>>]

PlanResult(ch, cl, pinfo, iinfo, pinds) ==
    [chunks |-> ch, calls |-> cl, pinfo |-> pinfo, iinfo |-> iinfo, pinds |-> pinds]

TheoryOnlyPlan(t_up) ==
    LET th == TheoryQuery(5, "plan", t_up)
    IN  {PlanResult(th.chunks, th.calls, <<>>, <<>>, <<>>)}

ComparisonPlan(e_up, db_up) ==
    LET sp == SelectedProductsPart(5, e_up, db_up)
        ii == IndicatorInfoPart(db_up)
    IN  {PlanResult(sp.chunks, sp.calls \o ii.calls, sp.pinfo, ii.val, sp.pinds)}

HybridPlan(t_up, e_up, db_up) ==
    LET th == TheoryQuery(3, "plan", t_up)
        sp == SelectedProductsPart(3, e_up, db_up)
        ii == IndicatorInfoPart(db_up)
    IN  {PlanResult(th.chunks \o sp.chunks, th.calls \o sp.calls \o ii.calls,
                    sp.pinfo, ii.val, sp.pinds)}

\* the new_product_query plan searching every extracted term and returning
\* up to 5 chunks per term
NewProductPlan_unlimited(t_up, e_up, db_up) ==
    LET th    == TheoryQuery(3, "plan", t_up)
        terms == search_terms(question)
        first == IF Len(terms) >= 1
                 THEN search_epd_by_term(terms[1], 5, db_up, e_up)
                 ELSE {[chunks |-> <<>>, calls |-> <<>>]}
        secnd == IF Len(terms) >= 2
                 THEN search_epd_by_term(terms[2], 5, db_up, e_up)
                 ELSE {[chunks |-> <<>>, calls |-> <<>>]}
        third == IF Len(terms) >= 3
                 THEN search_epd_by_term(terms[3], 5, db_up, e_up)
                 ELSE {[chunks |-> <<>>, calls |-> <<>>]}
    IN  { PlanResult(th.chunks \o a.chunks \o b.chunks \o c.chunks,
                     th.calls \o a.calls \o b.calls \o c.calls, <<>>, <<>>, <<>>) :
          a \in first, b \in secnd, c \in third }

NewProductPlan(t_up, e_up, db_up) ==
    LET th    == TheoryQuery(3, "plan", t_up)
        terms == Take(search_terms(question), 2)
        first == IF Len(terms) >= 1
                 THEN search_epd_by_term(terms[1], 2, db_up, e_up)
                 ELSE {[chunks |-> <<>>, calls |-> <<>>]}
        secnd == IF Len(terms) >= 2
                 THEN search_epd_by_term(terms[2], 2, db_up, e_up)
                 ELSE {[chunks |-> <<>>, calls |-> <<>>]}
    IN  { PlanResult(th.chunks \o a.chunks \o b.chunks,
                     th.calls \o a.calls \o b.calls, <<>>, <<>>, <<>>) :
          a \in first, b \in secnd }

IndicatorExplanationPlan(t_up, db_up) ==
    LET th == TheoryQuery(5, "plan", t_up)
        ii == IndicatorInfoPart(db_up)
    IN  {PlanResult(th.chunks, th.calls \o ii.calls, <<>>, ii.val, <<>>)}

RecommendationPlan(t_up, e_up) ==
    LET th == TheoryQuery(2, "plan", t_up)
        ep == EpdQuery(<<>>, 5, "plan", e_up)
    IN  {PlanResult(th.chunks \o ep.chunks, th.calls \o ep.calls, <<>>, <<>>, <<>>)}

\* the threshold off by one
needs_theory_up_to_three(collected) ==
    Len(collected) <= 3

\* theory is added only when fewer than 3 chunks were collected
needs_theory(collected) ==
    Len(collected) < 3

FollowupPlan(t_up, e_up, db_up) ==
    LET fp == FollowupProductsPart(e_up, db_up)
        ii == IndicatorInfoPart(db_up)
        th == IF needs_theory(fp.chunks) THEN TheoryQuery(2, "plan", t_up)
              ELSE [chunks |-> <<>>, calls |-> <<>>]
    IN  {PlanResult(fp.chunks \o th.chunks, fp.calls \o ii.calls \o th.calls,
                    fp.pinfo, ii.val, fp.pinds)}

\* the unknown branch with the limits of the comparison branch
UnknownPlan_top_five(t_up, e_up, db_up) ==
    LET th == TheoryQuery(5, "plan", t_up)
        sp == SelectedProductsPart(5, e_up, db_up)
        ii == IndicatorInfoPart(db_up)
    IN  {PlanResult(th.chunks \o sp.chunks, th.calls \o sp.calls \o ii.calls,
                    sp.pinfo, ii.val, sp.pinds)}

UnknownPlan(t_up, e_up, db_up) ==
    LET th == TheoryQuery(3, "plan", t_up)
        sp == SelectedProductsPart(3, e_up, db_up)
        ii == IndicatorInfoPart(db_up)
    IN  {PlanResult(th.chunks \o sp.chunks, th.calls \o sp.calls \o ii.calls,
                    sp.pinfo, ii.val, sp.pinds)}

\* the if / elif chain over the category, the last arm being `else`
CategoryPlans(cat, t_up, e_up, db_up) ==
    IF cat = theory_only THEN TheoryOnlyPlan(t_up)
    ELSE IF cat = comparison_question THEN ComparisonPlan(e_up, db_up)
    ELSE IF cat = hybrid_theory_comparison THEN HybridPlan(t_up, e_up, db_up)
    ELSE IF cat = new_product_query THEN NewProductPlan(t_up, e_up, db_up)
    ELSE IF cat = indicator_explanation THEN IndicatorExplanationPlan(t_up, db_up)
    ELSE IF cat = recommendation_query THEN RecommendationPlan(t_up, e_up)
    ELSE IF cat = product_followup THEN FollowupPlan(t_up, e_up, db_up)
    ELSE UnknownPlan(t_up, e_up, db_up)

\* the broader approach taken when the category plan found nothing
FallbackPlan(t_up, e_up) ==
    LET th == TheoryQuery(2, "fallback", t_up)
        ep == EpdQuery(<<>>, 3, "fallback", e_up)
    IN  [chunks |-> th.chunks \o ep.chunks, calls |-> th.calls \o ep.calls]

(***************************************************************************)
(* Prompt compositor.  A prompt is the sequence of the template's parts;   *)
(* a part is [kind, text, body], body holding the lines of a block.        *)
(***************************************************************************)
DigitChars ==
    <<"0", "1", "2", "3", "4", "5", "6", "7", "8", "9">>

RECURSIVE Digits(_)
\* decimal digits of a natural number
Digits(n) ==
    IF n < 10 THEN <<DigitChars[n + 1]>>
    ELSE Digits(n \div 10) \o <<DigitChars[(n % 10) + 1]>>

\* f"{value:.2e}" below 0.001 and f"{value:.3f}" otherwise, of a float held
\* in tenths
FormatValue(v) ==
    IF v = 0 THEN <<"0", ".", "0", "0", "e", "+", "0", "0">>
    ELSE (IF v < 0 THEN <<"-">> ELSE <<>>)
         \o Digits(Abs(v) \div 10) \o <<".">> \o Digits(Abs(v) % 10) \o <<"0", "0">>

HighMarker ==
    <<" ", "(", "h", "i", "g", "h", ")">>

LowMarker ==
    <<" ", "(", "l", "o", "w", ")">>

\* the marker given from the threshold on, z-score 1.5 included
significance_marker_from_threshold(sig) ==
    IF sig.is_high /\ ~FracGT(<<3, 2>>, sig.z_score) THEN HighMarker
    ELSE IF sig.is_low /\ ~FracGT(<<3, 2>>, sig.z_score) THEN LowMarker
    ELSE <<>>

\* " (high)" / " (low)" for a module's significance entry
significance_marker(sig) ==
    IF sig.is_high /\ FracGT(sig.z_score, <<3, 2>>) THEN HighMarker
    ELSE IF sig.is_low /\ FracGT(sig.z_score, <<3, 2>>) THEN LowMarker
    ELSE <<>>

\* the "module: value" pairs of one indicator; NULL values give no pair
module_values(data) ==
    LET has_significance == "significance" \in DOMAIN data
        present(e)       == e.v # <<>>
        shown            == SelectSeq(data.modules, present)
    IN  [j \in 1..Len(shown) |->
           [module |-> shown[j].k,
            formatted_value |->
               FormatValue(shown[j].v[1])
               \o (IF has_significance /\ DHas(data.significance, shown[j].k)
                   THEN significance_marker(DGet(data.significance, shown[j].k))
                   ELSE <<>>)]]

\* the display name: "name (key)" from the first matching descriptor, else the key
indicator_name(indicator_key, iinfo) ==
    LET match(ind) == ind.key = indicator_key
        found      == SelectSeq(iinfo, match)
    IN  IF found = <<>> THEN <<indicator_key>>
        ELSE <<found[1].name, " (", indicator_key, ")">>

Line(kind, text) ==
    [kind |-> kind, text |-> text, key |-> "", unit |-> "", module_values |-> <<>>]

\* an indicator line is appended whatever pairs it has
has_module_values_unchecked(pairs) ==
    TRUE

\* if module_values: a line is appended only with at least one pair
has_module_values(pairs) ==
    pairs # <<>>

\* "    name (unit): module: value, ..." for each indicator of a product
product_indicator_values(inds, iinfo) ==
    LET line(i)   == [kind |-> "indicator", text |-> indicator_name(inds[i].k, iinfo),
                      key |-> inds[i].k, unit |-> inds[i].v.unit,
                      module_values |-> module_values(inds[i].v)]
        lines     == [i \in 1..Len(inds) |-> line(i)]
        kept(l)   == has_module_values(l.module_values)
    IN  SelectSeq(lines, kept)

\* the lines of one product (the products table of this model holds no
\* technical or short description)
product_detail(p, iinfo, pinds) ==
    LET values == IF pinds # <<>> /\ DHas(pinds[1], p.process_id)
                  THEN product_indicator_values(DGet(pinds[1], p.process_id), iinfo)
                  ELSE <<>>
    IN  << [Line("product", p.name_en) EXCEPT !.key = p.process_id],
           Line("category", p.category),
           Line("description", p.description_en) >>
        \o (IF values = <<>> THEN <<>>
            ELSE <<Line("notable", "  Notable Indicator Values:")>> \o values)

\* product_context: "" or the block of all product_info entries
product_context(pinfo, iinfo, pinds) ==
    IF pinfo = <<>> THEN <<>>
    ELSE <<Line("header", "Selected Products:")>>
         \o Concat([i \in 1..Len(pinfo) |-> product_detail(pinfo[i], iinfo, pinds)])

\* indicator_context: "" or the block of all indicator_info entries
indicator_context(iinfo) ==
    IF iinfo = <<>> THEN <<>>
    ELSE <<Line("header", "Selected Indicators:")>>
         \o Concat([i \in 1..Len(iinfo) |->
                      << [Line("indicator_info", iinfo[i].name) EXCEPT !.key = iinfo[i].key],
                         Line("description", iinfo[i].short_description),
                         Line("detail", iinfo[i].long_description) >>])

\* "\n\n".join(chunks)
JoinChunks(cs) ==
    IF cs = <<>> THEN <<>>
    ELSE <<cs[1]>> \o Concat([i \in 1..(Len(cs) - 1) |-> << <<"\n\n", 0>>, cs[i + 1] >>])

no_invention_warning ==
    "IMPORTANT: Only use numerical values explicitly provided above. Do not make up or infer any values not clearly stated in the context. If data is missing, acknowledge this limitation."

module_integrity_warning ==
    "\nCRITICAL INTEGRITY INSTRUCTION: Environmental indicator values are SPECIFIC to their life cycle modules.\n\n- Each value is ONLY valid for its specific module (A1, A1-A3, B1, C4, etc.)\n- You must NEVER present a module-specific value (e.g., A1-A3: 25.4) as representing the entire indicator\n- When citing values, ALWAYS include the exact module code: \"GWP for module A1-A3: 25.4\", NOT just \"GWP: 25.4\"\n- Different modules (A1 vs B2 vs C4) represent different life cycle stages and CANNOT be combined or compared directly\n- NEVER sum up values across different modules to create a \"total\" unless explicitly provided\n"

module_explanation ==
    "\nREFERENCE - Life Cycle Modules:\n- A1-A3: Product stage (raw material supply, transport, manufacturing)\n- A4-A5: Construction stage (transport to site, installation)\n- B1-B7: Use stage (use, maintenance, repair, replacement, etc.)\n- C1-C4: End-of-life stage (demolition, transport, waste processing, disposal)\n- D: Benefits beyond system boundary (reuse, recovery, recycling potential)\n"

\* the module warnings kept for the two comparison categories only
product_related_comparisons_only(cat) ==
    cat \in {comparison_question, hybrid_theory_comparison}

\* category in ["comparison_question", "hybrid_theory_comparison", "product_followup"]
product_related(cat) ==
    cat \in {comparison_question, hybrid_theory_comparison, product_followup}

Part(kind, text, body) ==
    [kind |-> kind, text |-> text, body |-> body]

\* product_warnings: both module texts, or "" for the other categories
product_warnings(cat) ==
    IF product_related(cat)
    THEN <<Part("module_integrity_warning", module_integrity_warning, <<>>),
           Part("module_explanation", module_explanation, <<>>)>>
    ELSE <<Part("product_warnings", "", <<>>)>>

\* opening sentence of each template, the default one last
Persona(cat) ==
    IF cat = theory_only
    THEN "You are an expert in building materials sustainability and life cycle assessment."
    ELSE IF cat = comparison_question
    THEN "You are a sustainability analyst specializing in Environmental Product Declarations (EPDs)."
    ELSE IF cat = hybrid_theory_comparison
    THEN "You are a sustainability educator specializing in building materials and life cycle assessment."
    ELSE IF cat = new_product_query
    THEN "You are a building materials sustainability expert."
    ELSE IF cat = indicator_explanation
    THEN "You are an environmental impact assessment specialist."
    ELSE IF cat = recommendation_query
    THEN "You are a sustainable building materials consultant."
    ELSE IF cat = product_followup
    THEN "You are a product sustainability analyst specializing in building materials."
    ELSE "You are a sustainability assistant specializing in building materials."

\* first sentence of the task paragraph that closes each template
Task(cat) ==
    IF cat = theory_only
    THEN "Answer the question clearly, providing definitions and explaining key terminology."
    ELSE IF cat = comparison_question
    THEN "Compare the products objectively based on their indicator values."
    ELSE IF cat = hybrid_theory_comparison
    THEN "First explain the relevant sustainability concepts, then analyze the differences between the products' indicator values."
    ELSE IF cat = new_product_query
    THEN "Share what you know about this type of product's environmental performance, sustainability characteristics, and common life cycle considerations based on the information in the context."
    ELSE IF cat = indicator_explanation
    THEN "Explain what this indicator measures, its units, what environmental impacts it relates to, and why it's relevant for building products."
    ELSE IF cat = recommendation_query
    THEN "Recommend products or materials that perform well on relevant sustainability criteria based on the information provided."
    ELSE "Note: Only statistically significant indicators (those that are notably higher or lower than category averages) are shown for each product."

\* the evidence text taken from the debug file instead of the argument
base_context_from_file(chunks_context) ==
    IF fetched_chunks = <<>> THEN << <<"No relevant context found.", 0>> >> ELSE fetched_chunks

\* base_context = chunks_context if chunks_context else "No relevant context found."
base_context(chunks_context) ==
    IF chunks_context = <<>> THEN << <<"No relevant context found.", 0>> >> ELSE chunks_context

\* build_specialized_prompt: prompt_templates.get(category, default_template)
build_specialized_prompt(cat, q, context, pinfo, iinfo, pinds) ==
    LET products  == IF pinfo = <<>> THEN <<>> ELSE pinfo[1]
        indicators == IF iinfo = <<>> THEN <<>> ELSE iinfo[1]
        base      == base_context(context)
        head      == <<Part("persona", Persona(cat), <<>>), Part("question", "Question:", q)>>
        pblock    == <<Part("product_context", "", product_context(products, indicators, pinds))>>
        iblock    == <<Part("indicator_context", "", indicator_context(indicators))>>
        cblock    == <<Part("context", "Context:", base),
                       Part("no_invention_warning", no_invention_warning, <<>>)>>
        task      == <<Part("task", Task(cat), <<>>)>>
        answer    == <<Part("answer", "Answer:", <<>>)>>
    IN  IF cat \in {comparison_question, hybrid_theory_comparison, product_followup}
        THEN head \o pblock \o iblock \o cblock \o product_warnings(cat) \o task \o answer
        ELSE IF cat = indicator_explanation
        THEN head \o iblock \o cblock \o task \o answer
        ELSE IF cat \in {theory_only, new_product_query, recommendation_query}
        THEN head \o cblock \o task \o answer
        ELSE head \o pblock \o iblock \o cblock \o answer

(***************************************************************************)
(* The /askrag handler, one action per stage                               *)
(***************************************************************************)
envvars ==
    <<embedding_model, embeddings, lcia_rows>>

sigvars ==
    <<sig_max, sig_ids, sig_result, sig_again>>

retrieved ==
    <<chunks, product_info, indicator_info, product_indicators>>

NoLlmResponse ==
    [kind |-> "none", text |-> <<>>, err |-> ""]

Init ==
    /\ pc = "idle"
    /\ embedding_model \in {"loaded", "none"}
    /\ embeddings \in Stores
    /\ lcia_rows \in LciaFixtures
    /\ raw_question = <<>>
    /\ question = <<>>
    /\ document_ids = <<>>
    /\ indicator_ids = <<>>
    /\ raw_response = NoLlmResponse
    /\ category = <<>>
    /\ chunks = <<>>
    /\ product_info = <<>>
    /\ indicator_info = <<>>
    /\ product_indicators = <<>>
    /\ prompt = <<>>
    /\ response = NoResponse
    /\ query_logs = <<>>
    /\ query_log = NoQueryLog
    /\ log_path = <<>>
    /\ log_errors = 0
    /\ log_calls = <<>>
    /\ now = 0
    /\ calls = <<>>
    /\ fetched_chunks = <<>>
    /\ sig_max = 0
    /\ sig_ids = <<>>
    /\ sig_result = <<>>
    /\ sig_again = <<>>

\* the question taken as received, without strip()
received_question_unstripped(text) ==
    text

\* question = data.question.strip()
received_question(text) ==
    Strip(text)

\* request parsing, input validation and the embedding-model check
Receive ==
    /\ pc = "idle"
    /\ \E q \in Questions, docs \in DocumentIdChoices, inds \in IndicatorIdChoices :
         /\ raw_question' = q
         /\ question' = received_question(q)
         /\ document_ids' = docs
         /\ indicator_ids' = inds
         /\ IF received_question(q) = <<>>
            THEN /\ \E log_ok \in BOOLEAN :
                      LogAndRespond(LogRecord("Question cannot be empty.", ""),
                                    JSONResponse(400, "Question cannot be empty.", ""), log_ok)
                 /\ pc' = "done"
            ELSE IF embedding_model = "none"
            THEN /\ \E log_ok \in BOOLEAN :
                      LogAndRespond(LogRecord("Embedding model is not available. Please try again later.", ""),
                                    JSONResponse(503, "Embedding model is not available. Please try again later.", ""), log_ok)
                 /\ pc' = "done"
            ELSE /\ pc' = "classify"
                 /\ UNCHANGED <<logvars, response>>
    /\ UNCHANGED <<envvars, sigvars, retrieved, raw_response, category, prompt,
                   calls, fetched_chunks>>

\* Step 1: classification, the generation capability answering with some r in R
Classify(R) ==
    /\ pc = "classify"
    /\ \E r \in R :
         LET out == classify_question(r)
         IN  /\ raw_response' = r
             /\ calls' = Append(calls, Call("llm", "classify", <<>>, 0, <<>>,
                                            "classify", r.kind # "raise", 0))
             /\ IF out.raised
                THEN /\ \E log_ok \in BOOLEAN :
                          LogAndRespond(LogRecord("Failed to classify question", r.err),
                                        JSONResponse(500, "An error occurred processing your question.", ""), log_ok)
                     /\ pc' = "done"
                     /\ UNCHANGED category
                ELSE /\ category' = out.label
                     /\ pc' = "embed"
                     /\ UNCHANGED <<logvars, response>>
    /\ UNCHANGED <<envvars, sigvars, retrieved, raw_question, question, document_ids,
                   indicator_ids, prompt, fetched_chunks>>

ClassifyQuestion ==
    Classify(PipelineResponses)

\* the embedding attempted again after a failure
after_embedding_retrying(out) ==
    IF out = "ok" THEN "retrieve" ELSE "embed"

\* where the handler continues after encode(): Step 3, or the return in the
\* except clause
after_embedding(out) ==
    IF out = "ok" THEN "retrieve" ELSE "done"

\* Step 2: embedding_model.encode(question)
Embed ==
    /\ pc = "embed"
    /\ \E out \in {"ok"} \cup ErrorTexts :
         /\ calls' = Append(calls, Call("embedding", "encode", <<>>, 0, <<>>,
                                        "embed", out = "ok", 0))
         /\ pc' = after_embedding(out)
         /\ IF out = "ok"
            THEN UNCHANGED <<logvars, response>>
            ELSE /\ \E log_ok \in BOOLEAN :
                      LogAndRespond(LogRecord("Error during embedding", out),
                                    JSONResponse(500, "Failed to process your question", out), log_ok)
    /\ UNCHANGED <<envvars, sigvars, retrieved, raw_question, question, document_ids,
                   indicator_ids, raw_response, category, prompt, fetched_chunks>>

\* the fallback taken whenever fewer than 3 chunks were found
needs_fallback_below_three(found) ==
    Len(found) < 3

\* if not chunks: the category plan found nothing
needs_fallback(found) ==
    found = <<>>

\* Step 3, first part: the retrieval plan of the category
CategoryPlan ==
    /\ pc = "retrieve"
    /\ \E t_up, e_up, db_up \in BOOLEAN :
         \E plan \in CategoryPlans(category, t_up, e_up, db_up) :
            /\ chunks' = plan.chunks
            /\ calls' = calls \o plan.calls
            /\ product_info' = plan.pinfo
            /\ indicator_info' = plan.iinfo
            /\ product_indicators' = plan.pinds
            /\ pc' = IF needs_fallback(plan.chunks) THEN "fallback" ELSE "write_chunks"
    /\ UNCHANGED <<envvars, sigvars, raw_question, question, document_ids, indicator_ids,
                   raw_response, category, prompt, response, logvars, fetched_chunks>>

\* Step 3, second part: general retrieval when the plan found nothing
Fallback ==
    /\ pc = "fallback"
    /\ \E t_up, e_up \in BOOLEAN :
         LET fb == FallbackPlan(t_up, e_up)
         IN  /\ chunks' = chunks \o fb.chunks
             /\ calls' = calls \o fb.calls
    /\ pc' = "write_chunks"
    /\ UNCHANGED <<envvars, sigvars, raw_question, question, document_ids, indicator_ids,
                   raw_response, category, product_info, indicator_info,
                   product_indicators, prompt, response, logvars, fetched_chunks>>

\* the emptiness test written as `chunks is None`, which a list never is
no_chunks_is_none(found) ==
    FALSE

\* if not chunks: neither the plan nor the fallback found evidence
no_chunks(found) ==
    found = <<>>

RetrievalErrorMsg ==
    "An error occurred while retrieving context"

\* Step 3, end: the debug file is rewritten and empty evidence is answered;
\* a failure to write the file is caught by the except clause of the step
WriteChunks ==
    /\ pc = "write_chunks"
    /\ \/ /\ fetched_chunks' = chunks
          /\ IF no_chunks(chunks)
             THEN /\ \E log_ok \in BOOLEAN :
                       LogAndRespond(LogRecord("No relevant chunks found", ""),
                                     JSONResponse(200, NoChunksMsg, ""), log_ok)
                  /\ pc' = "done"
             ELSE /\ pc' = "compose"
                  /\ UNCHANGED <<logvars, response>>
       \/ /\ UNCHANGED fetched_chunks
          /\ \E e \in ErrorTexts, log_ok \in BOOLEAN :
                LogAndRespond(LogRecord(RetrievalErrorMsg, e),
                              JSONResponse(500, RetrievalErrorMsg, e), log_ok)
          /\ pc' = "done"
    /\ UNCHANGED <<envvars, sigvars, retrieved, raw_question, question, document_ids,
                   indicator_ids, raw_response, category, prompt, calls>>

\* Step 4: the prompt is built
Compose ==
    /\ pc = "compose"
    /\ prompt' = <<build_specialized_prompt(category, question, JoinChunks(chunks),
                                            product_info, indicator_info,
                                            product_indicators)>>
    /\ pc' = "generate"
    /\ UNCHANGED <<envvars, sigvars, retrieved, raw_question, question, document_ids,
                   indicator_ids, raw_response, category, response, logvars, calls,
                   fetched_chunks>>

\* what query_llm(prompt, model_name) can do
GenerationOutcomes ==
    {LlmText(<<"o", "k">>), LlmText(<<>>), LlmNonString}
    \cup {LlmRaise(e) : e \in ErrorTexts}

\* Step 5: the prompt is sent to the generation capability
Generate ==
    /\ pc = "generate"
    /\ \E out \in GenerationOutcomes :
         /\ calls' = Append(calls, Call("llm", "generate", <<>>, 0, <<>>,
                                        "generate", out.kind # "raise", 0))
         /\ IF out.kind = "raise"
            THEN /\ \E log_ok \in BOOLEAN :
                      LogAndRespond(LogRecord("Inference failed", out.err),
                                    JSONResponse(503, "I'm sorry, I'm having trouble generating a response right now. Please try again later.", out.err), log_ok)
            ELSE IF out.kind = "nonstring" \/ out.text = <<>>
            THEN /\ \E log_ok \in BOOLEAN :
                      LogAndRespond(LogRecord("LLM returned invalid answer", ""),
                                    JSONResponse(200, "I'm sorry, I couldn't generate a proper response. Please try again.", ""), log_ok)
            ELSE /\ \E log_ok \in BOOLEAN :
                      LogAndRespond(LogRecord("", ""),
                                    JSONResponse(200, "answer", ""), log_ok)
    /\ pc' = "done"
    /\ UNCHANGED <<envvars, sigvars, retrieved, raw_question, question, document_ids,
                   indicator_ids, raw_response, category, prompt, fetched_chunks>>

Next ==
    \/ Receive
    \/ ClassifyQuestion
    \/ Embed
    \/ CategoryPlan
    \/ Fallback
    \/ WriteChunks
    \/ Compose
    \/ Generate

Spec ==
    Init /\ [][Next]_vars

(***************************************************************************)
(* The classifier alone, against every response of the capability          *)
(***************************************************************************)
ClassifyAnyResponse ==
    Classify(ClassifierResponses)

ClassifierNext ==
    \/ Receive
    \/ ClassifyAnyResponse

ClassifierSpec ==
    Init /\ [][ClassifierNext]_vars

(***************************************************************************)
(* The significance engine alone: module amounts arrive in any order,      *)
(* then the engine is called with some max_indicators                      *)
(***************************************************************************)
RowUniverse ==
    { Row("P1", "GWP", "A1-A3", <<254>>), Row("P1", "GWP", "A1-A3", <<30>>),
      Row("P1", "GWP", "C4", <<40>>),     Row("P1", "GWP", "C4", <<0>>),
      Row("P1", "ODP", "A1-A3", <<80>>),  Row("P1", "ODP", "A1-A3", <<>>),
      Row("P1", "PERT", "A1-A3", <<60>>), Row("P1", "PERT", "A1-A3", <<150>>),
      Row("P1", "ODP", "C4", <<10>>),     Row("P1", "AP", "A1-A3", <<50>>),
      Row("P2", "GWP", "A1-A3", <<10>>),  Row("P9", "GWP", "A1-A3", <<10>>) }

SigIdChoices ==
    { <<"P1">>, <<"P2", "P1", "P9">> }

SigInit ==
    /\ pc = "sig"
    /\ embedding_model = "loaded"
    /\ embeddings = <<>>
    /\ lcia_rows = <<>>
    /\ raw_question = <<>>
    /\ question = <<>>
    /\ document_ids = <<>>
    /\ indicator_ids = <<>>
    /\ raw_response = NoLlmResponse
    /\ category = <<>>
    /\ chunks = <<>>
    /\ product_info = <<>>
    /\ indicator_info = <<>>
    /\ product_indicators = <<>>
    /\ prompt = <<>>
    /\ response = NoResponse
    /\ query_logs = <<>>
    /\ query_log = NoQueryLog
    /\ log_path = <<>>
    /\ log_errors = 0
    /\ log_calls = <<>>
    /\ now = 0
    /\ calls = <<>>
    /\ fetched_chunks = <<>>
    /\ sig_max = 0
    /\ sig_ids = <<>>
    /\ sig_result = <<>>
    /\ sig_again = <<>>

\* the store returns one more joined row
SigAddRow ==
    /\ pc = "sig"
    /\ Len(lcia_rows) < MaxRows
    /\ \E row \in RowUniverse : lcia_rows' = Append(lcia_rows, row)
    /\ UNCHANGED <<pc, embedding_model, embeddings, raw_question, question, document_ids,
                   indicator_ids, raw_response, category, retrieved, prompt, response,
                   logvars, calls, fetched_chunks, sigvars>>

\* get_statistically_important_indicators(ids, n)
SigCall ==
    /\ pc = "sig"
    /\ \E ids \in SigIdChoices, n \in 0..MaxIndicators, up \in BOOLEAN :
         /\ sig_ids' = ids
         /\ sig_max' = n
         /\ sig_result' = get_statistically_important_indicators(ids, n, up)
         /\ calls' = <<DbCall("significance", ids, "first", up)>>
    /\ pc' = "sig_done"
    /\ UNCHANGED <<envvars, raw_question, question, document_ids, indicator_ids,
                   raw_response, category, retrieved, prompt, response, logvars,
                   fetched_chunks, sig_again>>

\* the store is asked again for the same rows of the same tables and, the
\* SELECT having no ORDER BY, returns them in another order
SigReorder ==
    /\ pc = "sig_done"
    /\ LET reversed == [i \in 1..Len(lcia_rows) |-> lcia_rows[Len(lcia_rows) + 1 - i]]
       IN  /\ reversed # lcia_rows
           /\ lcia_rows' = reversed
    /\ pc' = "sig_reordered"
    /\ UNCHANGED <<embedding_model, embeddings, raw_question, question, document_ids,
                   indicator_ids, raw_response, category, retrieved, prompt, response,
                   logvars, calls, fetched_chunks, sigvars>>

\* the same call once more, the store being as available as it was
SigCallAgain ==
    /\ pc \in {"sig_done", "sig_reordered"}
    /\ sig_again' = get_statistically_important_indicators(sig_ids, sig_max, calls[1].ok)
    /\ calls' = Append(calls, DbCall("significance", sig_ids, "again", calls[1].ok))
    /\ pc' = "sig_again"
    /\ UNCHANGED <<envvars, raw_question, question, document_ids, indicator_ids,
                   raw_response, category, retrieved, prompt, response, logvars,
                   fetched_chunks, sig_max, sig_ids, sig_result>>

SigNext ==
    \/ SigAddRow
    \/ SigCall
    \/ SigReorder
    \/ SigCallAgain

SigSpec ==
    SigInit /\ [][SigNext]_vars

(***************************************************************************)
(* A request of /askrag while other requests are served: they share the    *)
(* working directory, the query_logs directory and the clock               *)
(***************************************************************************)
MaxTime == 1

ConcInit ==
    /\ pc = "idle"
    /\ embedding_model = "loaded"
    /\ embeddings = BuildStore(MaxTheoryChunks, MaxEpdChunks, 1)
    /\ lcia_rows = <<>>
    /\ raw_question = <<>>
    /\ question = <<>>
    /\ document_ids = <<>>
    /\ indicator_ids = <<>>
    /\ raw_response = NoLlmResponse
    /\ category = <<>>
    /\ chunks = <<>>
    /\ product_info = <<>>
    /\ indicator_info = <<>>
    /\ product_indicators = <<>>
    /\ prompt = <<>>
    /\ response = NoResponse
    /\ query_logs = <<>>
    /\ query_log = NoQueryLog
    /\ log_path = <<>>
    /\ log_errors = 0
    /\ log_calls = <<>>
    /\ now = 0
    /\ calls = <<>>
    /\ fetched_chunks = <<>>
    /\ sig_max = 0
    /\ sig_ids = <<>>
    /\ sig_result = <<>>
    /\ sig_again = <<>>

\* a second passes
Tick ==
    /\ now < MaxTime
    /\ now' = now + 1
    /\ UNCHANGED <<pc, envvars, sigvars, retrieved, raw_question, question, document_ids,
                   indicator_ids, raw_response, category, prompt, response, query_logs,
                   query_log, log_path, log_errors, log_calls, calls, fetched_chunks>>

\* another request reaches its log_query call
OtherLogQuery ==
    /\ LET record == [error |-> "Question cannot be empty.", detail |-> "",
                      classification |-> <<>>, prompt |-> <<>>]
       IN  query_logs' = log_query(query_logs, record, now, TRUE).files
    /\ query_logs' # query_logs
    /\ UNCHANGED <<pc, envvars, sigvars, retrieved, raw_question, question, document_ids,
                   indicator_ids, raw_response, category, prompt, response,
                   query_log, log_path, log_errors, log_calls, now, calls, fetched_chunks>>

\* another request, with theory evidence, reaches its dump to fetched_chunks.txt
OtherWriteChunks ==
    /\ fetched_chunks' = get_theory_chunks(2, TRUE)
    /\ fetched_chunks' # fetched_chunks
    /\ UNCHANGED <<pc, envvars, sigvars, retrieved, raw_question, question, document_ids,
                   indicator_ids, raw_response, category, prompt, response, logvars,
                   calls>>

ConcNext ==
    \/ Next
    \/ Tick
    \/ OtherLogQuery
    \/ OtherWriteChunks

ConcSpec ==
    ConcInit /\ [][ConcNext]_vars

(***************************************************************************)
(* The prompt compositor alone: called twice on the same arguments, with   *)
(* the debug file rewritten in between                                     *)
(***************************************************************************)
\* significance entries as the engine files them, at, above and below the
\* marker threshold
SigChoices ==
    { [z_score |-> z, percentile |-> <<1, 2>>, is_high |-> d[1], is_low |-> d[2]] :
        z \in {<<0, 1>>, <<3, 2>>, <<77, 50>>},
        d \in {<<TRUE, FALSE>>, <<FALSE, TRUE>>, <<FALSE, FALSE>>} }

\* {pid: {"GWP": data}} of a significance view
SigView(modules, sigs) ==
    << [k |-> "P1",
        v |-> << [k |-> "GWP",
                  v |-> [unit |-> "kg eq.", modules |-> modules, significance |-> sigs,
                         name |-> <<"Global warming potential">>,
                         description |-> <<"greenhouse gases">>]] >>] >>

\* {pid: {"GWP": data}} as get_product_indicators returns it
PlainView(modules) ==
    << [k |-> "P1", v |-> << [k |-> "GWP", v |-> [unit |-> "kg eq.", modules |-> modules]] >>] >>

ModuleChoices ==
    { <<[k |-> "A1-A3", v |-> a]>> \o c :
        a \in {<<>>, <<254>>, <<0>>},
        c \in {<<>>, <<[k |-> "C4", v |-> <<>>]>>, <<[k |-> "C4", v |-> <<-5>>]>>} }

PromptViews ==
    {<<>>}
    \cup { <<PlainView(m)>> : m \in ModuleChoices }
    \cup { <<SigView(m, <<[k |-> "A1-A3", v |-> sg]>>)>> : m \in ModuleChoices, sg \in SigChoices }

PromptInit ==
    /\ pc = "prompt"
    /\ embedding_model = "loaded"
    /\ embeddings = BuildStore(0, 0, 0)
    /\ lcia_rows = <<>>
    /\ raw_question = QEpd
    /\ question = received_question(QEpd)
    /\ document_ids = <<>>
    /\ indicator_ids = <<>>
    /\ raw_response = NoLlmResponse
    /\ category \in valid_labels \cup {unknown}
    /\ chunks \in {<<>>, << <<"T", 1>>, <<"P1", 1>> >>}
    /\ product_info \in {<<>>, <<get_product_info(<<"P1">>, TRUE)>>,
                         <<get_product_info(<<"P1", "P2">>, TRUE)>>}
    /\ indicator_info \in {<<>>, <<get_indicator_info(<<"GWP">>, TRUE)>>}
    /\ product_indicators \in PromptViews
    /\ prompt = <<>>
    /\ response = NoResponse
    /\ query_logs = <<>>
    /\ query_log = NoQueryLog
    /\ log_path = <<>>
    /\ log_errors = 0
    /\ log_calls = <<>>
    /\ now = 0
    /\ calls = <<>>
    /\ fetched_chunks = <<>>
    /\ sig_max = 0
    /\ sig_ids = <<>>
    /\ sig_result = <<>>
    /\ sig_again = <<>>

\* prompt = build_specialized_prompt(category, question, chunks_context, ...)
PromptCall ==
    /\ pc \in {"prompt", "prompt_again"}
    /\ prompt' = Append(prompt, build_specialized_prompt(category, question,
                                    JoinChunks(chunks), product_info, indicator_info,
                                    product_indicators))
    /\ pc' = IF pc = "prompt" THEN "prompt_called" ELSE "prompt_done"
    /\ UNCHANGED <<envvars, sigvars, retrieved, raw_question, question, document_ids,
                   indicator_ids, raw_response, category, response, logvars, calls,
                   fetched_chunks>>

\* between the calls a request rewrites the debug file, or nothing happens
PromptDisturb ==
    /\ pc = "prompt_called"
    /\ fetched_chunks' \in {fetched_chunks, << <<"T", 2>> >>}
    /\ pc' = "prompt_again"
    /\ UNCHANGED <<envvars, sigvars, retrieved, raw_question, question, document_ids,
                   indicator_ids, raw_response, category, prompt, response, logvars,
                   calls>>

PromptNext ==
    \/ PromptCall
    \/ PromptDisturb

PromptSpec ==
    PromptInit /\ [][PromptNext]_vars

(***************************************************************************)
(* Vocabulary of the properties                                            *)
(***************************************************************************)
AllLabels ==
    valid_labels \cup {unknown}

AllWhitespace(text) ==
    \A i \in 1..Len(text) : text[i] \in Whitespace

\* text is label l written in any case, between optional whitespace
TrimsTo(text, l) ==
    \E a \in 0..Len(text) :
        /\ a + Len(l) <= Len(text)
        /\ \A i \in 1..a : text[i] \in Whitespace
        /\ \A i \in 1..Len(l) : LowerChar(text[a + i]) = l[i]
        /\ \A i \in (a + Len(l) + 1)..Len(text) : text[i] \in Whitespace

Classified ==
    raw_response.kind # "none"

IsPlanQuery(c) ==
    c.svc = "store" /\ c.phase = "plan"

IsFallbackQuery(c) ==
    c.svc = "store" /\ c.phase = "fallback"

\* an evidence query as <<pool, id filter, limit>>
QueryShape(c) ==
    <<c.op, c.ids, c.limit>>

Shapes(cs) ==
    [i \in 1..Len(cs) |-> QueryShape(cs[i])]

PlanQueries ==
    SelectSeq(calls, IsPlanQuery)

FallbackQueries ==
    SelectSeq(calls, IsFallbackQuery)

RECURSIVE SumN(_)
\* chunks returned by a sequence of queries
SumN(cs) ==
    IF cs = <<>> THEN 0 ELSE Head(cs).n + SumN(Tail(cs))

\* the category plan has run
PlanDone ==
    \/ pc \in {"fallback", "write_chunks", "compose", "generate"}
    \/ pc = "done" /\ \E i \in 1..Len(calls) : calls[i].svc = "embedding" /\ calls[i].ok

\* retrieval, fallback included, has run
RetrievalDone ==
    PlanDone /\ pc # "fallback"

FallbackShape ==
    << <<"theory", <<>>, 2>>, <<"epd", <<>>, 3>> >>

GenerationCalled ==
    \E i \in 1..Len(calls) : calls[i].svc = "llm" /\ calls[i].op = "generate"

(***************************************************************************)
(* C1: for every response of the generation capability - any text, an      *)
(* empty text, a non-string or a raised failure - classify_question        *)
(* returns one of the 8 labels and does not raise; the result is a named   *)
(* label exactly when the response, trimmed and lower-cased, is that       *)
(* label, and unknown in every other case.                                 *)
(***************************************************************************)
C1_ClassifierTotal ==
    Classified =>
        /\ pc = "embed"
        /\ response = NoResponse
        /\ category \in AllLabels
        /\ \A l \in valid_labels :
              category = l <=> (raw_response.kind = "text" /\ TrimsTo(raw_response.text, l))

\* a dressed-up label was accepted, and a failure became unknown
C1_Witness ==
    /\ Classified
    /\ \/ /\ raw_response.kind = "text"
          /\ raw_response.text = <<"\t">> \o Upper(theory_only)
          /\ category = theory_only
       \/ /\ raw_response.kind = "raise"
          /\ category = unknown

(***************************************************************************)
(* C2: for every max_indicators N >= 0 a result of                         *)
(* get_statistically_important_indicators holds, per product, at most N    *)
(* (indicator key, module) significance entries and at most N indicators.  *)
(***************************************************************************)
RECURSIVE SigEntryCount(_)
SigEntryCount(inds) ==
    IF inds = <<>> THEN 0
    ELSE Len(Head(inds).v.significance) + SigEntryCount(Tail(inds))

C2_AtMostMaxIndicators ==
    pc = "sig_done" =>
        \A p \in 1..Len(sig_result) :
            /\ SigEntryCount(sig_result[p].v) <= sig_max
            /\ Len(sig_result[p].v) <= sig_max
            /\ \A i \in 1..Len(sig_result[p].v) :
                  Len(sig_result[p].v[i].v.modules) = Len(sig_result[p].v[i].v.significance)

\* the cap was binding: a product had three candidates and two were returned
C2_Witness ==
    /\ pc = "sig_done"
    /\ sig_max = 2
    /\ \E p \in 1..Len(sig_result) :
          /\ SigEntryCount(sig_result[p].v) = 2
          /\ SigEntryCount(DGet(get_statistically_important_indicators(
                                    sig_ids, 3, TRUE), sig_result[p].k)) = 3

(***************************************************************************)
(* C3: what the product_followup branch passes to the prompt contains, for *)
(* every product of the request and every caller-selected indicator, each  *)
(* module amount stored for it.                                            *)
(***************************************************************************)
AllCallsOk ==
    \A i \in 1..Len(calls) : calls[i].svc \in {"store", "db"} => calls[i].ok

C3_SelectedAlwaysIncluded ==
    (/\ prompt # <<>>
     /\ category = product_followup
     /\ document_ids # <<>>
     /\ AllCallsOk)
    => \A i \in 1..Len(lcia_rows) :
          (/\ lcia_rows[i].process_id \in Range(document_ids)
           /\ lcia_rows[i].indicator_key \in Range(indicator_ids)
           /\ lcia_rows[i].module # ""
           /\ lcia_rows[i].amount # <<>>)
          => <<lcia_rows[i].indicator_key, lcia_rows[i].module, lcia_rows[i].amount>>
                \in EntriesOf(product_indicators[1], lcia_rows[i].process_id)

(***************************************************************************)
(* C4: the fallback plan (theory top 2, then unfiltered product evidence   *)
(* top 3) runs if and only if the category plan returned no chunk, at most *)
(* once per request, and the empty-evidence answer is given only after the *)
(* fallback ran once and returned no chunk either.                         *)
(***************************************************************************)
C4_FallbackExactlyOnce ==
    /\ FallbackQueries = <<>> \/ Shapes(FallbackQueries) = FallbackShape
    /\ pc = "fallback" => FallbackQueries = <<>> /\ SumN(PlanQueries) = 0
    /\ RetrievalDone => (FallbackQueries # <<>> <=> SumN(PlanQueries) = 0)
    /\ response.answer = NoChunksMsg =>
          /\ SumN(PlanQueries) = 0
          /\ Shapes(FallbackQueries) = FallbackShape
          /\ SumN(FallbackQueries) = 0

\* the fallback ran and found the evidence the request was answered from
C4_Witness ==
    /\ pc = "done"
    /\ PlanQueries # <<>>
    /\ SumN(PlanQueries) = 0
    /\ SumN(FallbackQueries) > 0
    /\ response.answer = "answer"

(***************************************************************************)
(* C5: a store-access failure in an evidence query ends the request with   *)
(* an error response; it is not taken for an empty result, so no fallback  *)
(* follows it and the "no information found" answer is not given.          *)
(***************************************************************************)
C5_StoreFailureIsHard ==
    (\E i \in 1..Len(calls) : calls[i].svc = "store" /\ ~calls[i].ok)
    => /\ pc = "done"
       /\ response.status >= 500
       /\ response.answer # NoChunksMsg
       /\ \A i, j \in 1..Len(calls) :
             (calls[i].svc = "store" /\ ~calls[i].ok /\ i < j) => calls[j].svc # "store"

(***************************************************************************)
(* C6: before any fallback the category plan issues exactly these evidence *)
(* queries: theory_only and indicator_explanation - theory top 5;          *)
(* comparison_question with ids - product evidence filtered by the ids,    *)
(* top 5, no theory; hybrid_theory_comparison with ids - theory top 3,     *)
(* then product evidence filtered by the ids, top 3; recommendation_query  *)
(* - theory top 2, then unfiltered product evidence top 5;                 *)
(* new_product_query - theory top 3, then one keyword search for each of   *)
(* the first two domain terms of the question, at most 2 chunks each.      *)
(***************************************************************************)
C6_CategoryPlanQueries ==
    PlanDone =>
        /\ category \in {theory_only, indicator_explanation}
              => Shapes(PlanQueries) = << <<"theory", <<>>, 5>> >>
        /\ (category = comparison_question /\ document_ids # <<>>)
              => Shapes(PlanQueries) = << <<"epd", document_ids, 5>> >>
        /\ (category = hybrid_theory_comparison /\ document_ids # <<>>)
              => Shapes(PlanQueries) = << <<"theory", <<>>, 3>>, <<"epd", document_ids, 3>> >>
        /\ category = recommendation_query
              => Shapes(PlanQueries) = << <<"theory", <<>>, 2>>, <<"epd", <<>>, 5>> >>
        /\ category = new_product_query
              => LET terms == search_terms(question)
                 IN  /\ Len(PlanQueries) = 1 + Min(2, Len(terms))
                     /\ QueryShape(PlanQueries[1]) = <<"theory", <<>>, 3>>
                     /\ \A i \in 2..Len(PlanQueries) :
                           /\ PlanQueries[i].op = "term"
                           /\ PlanQueries[i].term = terms[i - 1]
                           /\ PlanQueries[i].term \in Range(common_building_terms)
                           /\ PlanQueries[i].limit = 2
                           /\ PlanQueries[i].n <= 2

\* a question with three domain terms: two searches, one of them cut to 2 chunks
C6_Witness ==
    /\ PlanDone
    /\ category = new_product_query
    /\ Len(search_terms(question)) = 3
    /\ Len(PlanQueries) = 3
    /\ PlanQueries[2].n = 2
    /\ Cardinality({i \in 1..Len(embeddings) : embeddings[i].process_id = "P1"}) > 2

(***************************************************************************)
(* C7 as claimed: for category unknown the plan queries theory top 3 and   *)
(* product evidence top 3, the latter filtered by the ids when ids are     *)
(* given and unfiltered when none are given.                               *)
(***************************************************************************)
C7_UnknownAlwaysQueriesEvidence ==
    (PlanDone /\ category = unknown)
    => Shapes(PlanQueries) = << <<"theory", <<>>, 3>>, <<"epd", document_ids, 3>> >>

(***************************************************************************)
(* C7 amended: for category unknown - whether from an unmapped response or *)
(* from a classifier failure - the plan queries theory top 3 and, when ids *)
(* are given, product evidence filtered by the ids, top 3; when no ids are *)
(* given it issues no product-evidence query.                              *)
(***************************************************************************)
C7_UnknownPlan ==
    (PlanDone /\ category = unknown)
    => Shapes(PlanQueries) =
          IF document_ids # <<>>
          THEN << <<"theory", <<>>, 3>>, <<"epd", document_ids, 3>> >>
          ELSE << <<"theory", <<>>, 3>> >>

\* a classifier failure degraded to unknown and both pools were queried
C7_Witness ==
    /\ PlanDone
    /\ raw_response.kind = "raise"
    /\ category = unknown
    /\ document_ids # <<>>
    /\ Len(PlanQueries) = 2

(***************************************************************************)
(* C8: for product_followup with ids the plan queries product evidence     *)
(* filtered by the ids, top 5, and it queries theory (top 2) if and only   *)
(* if fewer than 3 chunks were obtained; with 3 or more product-evidence   *)
(* chunks it issues no theory query.                                       *)
(***************************************************************************)
IsEpdQuery(c) ==
    c.op = "epd"

IsTheoryQuery(c) ==
    c.op = "theory"

C8_FollowupTheoryOnlyIfFew ==
    (PlanDone /\ category = product_followup)
    => LET epd    == SelectSeq(PlanQueries, IsEpdQuery)
           theory == SelectSeq(PlanQueries, IsTheoryQuery)
       IN  /\ document_ids # <<>> => Shapes(epd) = << <<"epd", document_ids, 5>> >>
           /\ PlanQueries = epd \o theory
           /\ theory # <<>> <=> SumN(epd) < 3
           /\ theory # <<>> => Shapes(theory) = << <<"theory", <<>>, 2>> >>

\* exactly 3 product-evidence chunks: no theory query
C8_Witness ==
    /\ PlanDone
    /\ category = product_followup
    /\ Len(PlanQueries) = 1
    /\ PlanQueries[1].op = "epd"
    /\ PlanQueries[1].n = 3

C10_EmptyQuestionRejected ==
    (pc # "idle" /\ AllWhitespace(raw_question))
    => /\ pc = "done"
       /\ response = JSONResponse(400, "Question cannot be empty.", "")
       /\ calls = <<>>

\* a whitespace-only question was rejected
C10_Witness ==
    /\ pc = "done"
    /\ raw_question = QBlank
    /\ response.status = 400

(***************************************************************************)
(* Vocabulary of the prompt properties                                     *)
(***************************************************************************)
\* the text of some part of prompt p is t
HasPart(p, t) ==
    \E i \in 1..Len(p) : p[i].text = t

\* the indicator lines of prompt p, in the order they are rendered
IndicatorLines(p) ==
    LET is_block(part) == part.kind = "product_context"
        is_line(l)     == l.kind = "indicator"
        blocks         == SelectSeq(p, is_block)
    IN  Concat([i \in 1..Len(blocks) |-> SelectSeq(blocks[i].body, is_line)])

ProductCentric ==
    {comparison_question, hybrid_theory_comparison, product_followup}

\* what follows the formatted number v in a rendered value
MarkerOf(formatted_value, v) ==
    SubSeq(formatted_value, Len(FormatValue(v)) + 1, Len(formatted_value))

(***************************************************************************)
(* C12: for comparison_question, hybrid_theory_comparison and              *)
(* product_followup every indicator line of the composed prompt has at     *)
(* least one "module: value" pair and every rendered value stands behind   *)
(* a non-empty module code; no line shows only a name and a unit.          *)
(***************************************************************************)
C12_ModuleIntegrity ==
    \A n \in 1..Len(prompt) :
       category \in ProductCentric =>
          LET lines == IndicatorLines(prompt[n])
          IN  \A i \in 1..Len(lines) :
                 /\ Len(lines[i].module_values) >= 1
                 /\ \A j \in 1..Len(lines[i].module_values) :
                       /\ lines[i].module_values[j].module # ""
                       /\ lines[i].module_values[j].formatted_value # <<>>

\* a product-centric prompt was composed from a view whose first module has
\* no amount: the line shows the other module only
C12_Witness ==
    /\ pc = "prompt_done"
    /\ category = product_followup
    /\ product_indicators # <<>>
    /\ product_indicators[1][1].v[1].v.modules[1].v = <<>>
    /\ Len(IndicatorLines(prompt[1])) = 1
    /\ Len(IndicatorLines(prompt[1])[1].module_values) = 1
    /\ IndicatorLines(prompt[1])[1].module_values[1].module = "C4"

(***************************************************************************)
(* C13: the prompt of each of the 8 categories contains the "only use      *)
(* values explicitly provided" clause verbatim, and the prompts of the     *)
(* three product-centric categories also contain the module-integrity      *)
(* clause and the life-cycle-module glossary verbatim.                     *)
(***************************************************************************)
C13_ClausesEmbedded ==
    \A n \in 1..Len(prompt) :
       /\ HasPart(prompt[n], no_invention_warning)
       /\ category \in ProductCentric =>
             /\ HasPart(prompt[n], module_integrity_warning)
             /\ HasPart(prompt[n], module_explanation)

\* a product_followup prompt was composed
C13_Witness ==
    /\ pc = "prompt_done"
    /\ category = product_followup
    /\ Len(prompt) = 2
    /\ HasPart(prompt[2], module_explanation)

C15_MarkerOnlyAboveThreshold ==
    \A n \in 1..Len(prompt) :
       LET lines == IndicatorLines(prompt[n])
       IN  \A i \in 1..Len(lines) : \A j \in 1..Len(lines[i].module_values) :
              LET data   == DGet(DGet(product_indicators[1], "P1"), lines[i].key)
                  pair   == lines[i].module_values[j]
                  marker == MarkerOf(pair.formatted_value, DGet(data.modules, pair.module)[1])
                  has    == /\ "significance" \in DOMAIN data
                            /\ DHas(data.significance, pair.module)
                  sig    == DGet(data.significance, pair.module)
                  notable == has /\ FracGT(sig.z_score, <<3, 2>>)
              IN  /\ marker \in {<<>>, HighMarker, LowMarker}
                  /\ marker = HighMarker => notable /\ sig.is_high
                  /\ marker = LowMarker => notable /\ sig.is_low
                  /\ (~notable \/ (~sig.is_high /\ ~sig.is_low)) => marker = <<>>

\* a value with a high entry of z-score 1.54 was rendered with " (high)"
C15_Witness ==
    /\ pc = "prompt_done"
    /\ product_indicators # <<>>
    /\ "significance" \in DOMAIN product_indicators[1][1].v[1].v
    /\ product_indicators[1][1].v[1].v.significance[1].v.z_score = <<77, 50>>
    /\ product_indicators[1][1].v[1].v.significance[1].v.is_high
    /\ Len(IndicatorLines(prompt[1])) = 1
    /\ MarkerOf(IndicatorLines(prompt[1])[1].module_values[1].formatted_value, 254) = HighMarker

(***************************************************************************)
(* C16 (Scenario C): a product with amount 25.4 for an indicator in        *)
(* module A1-A3, against a category statistic of mean 10 and std-dev 5,    *)
(* gets direction high and its rendered value carries " (high)".  The      *)
(* z-score is |25.4 - 10| / 5 = 3.08 (C16_ScenarioC); the statement that   *)
(* it is 2.88 is C16_ScenarioC_z288.                                       *)
(***************************************************************************)
\* the significance entry of P1's GWP amount in A1-A3
ScenarioEntry ==
    DGet(DGet(DGet(product_indicators[1], "P1"), "GWP").significance, "A1-A3")

\* the request is a product follow-up whose significance view holds the entry
ScenarioC ==
    /\ pc \in {"generate", "done"}
    /\ prompt # <<>>
    /\ category = product_followup
    /\ product_indicators # <<>>
    /\ DHas(product_indicators[1], "P1")
    /\ DHas(DGet(product_indicators[1], "P1"), "GWP")
    /\ DHas(DGet(DGet(product_indicators[1], "P1"), "GWP").modules, "A1-A3")
    /\ DGet(DGet(DGet(product_indicators[1], "P1"), "GWP").modules, "A1-A3") = <<254>>

\* the rendered "A1-A3" value of P1's GWP line carries " (high)"
ScenarioRendered ==
    LET lines == IndicatorLines(prompt[1])
    IN  \E i \in 1..Len(lines) : \E j \in 1..Len(lines[i].module_values) :
           /\ lines[i].key = "GWP"
           /\ lines[i].module_values[j].module = "A1-A3"
           /\ lines[i].module_values[j].formatted_value
                 = <<"2", "5", ".", "4", "0", "0">> \o HighMarker

C16_ScenarioC_z288 ==
    ScenarioC =>
       /\ ScenarioEntry.z_score[1] * 100 = 288 * ScenarioEntry.z_score[2]
       /\ ScenarioEntry.is_high
       /\ ScenarioRendered

C16_ScenarioC ==
    ScenarioC =>
       /\ ScenarioEntry.z_score[1] * 100 = 308 * ScenarioEntry.z_score[2]
       /\ ScenarioEntry.is_high
       /\ ~ScenarioEntry.is_low
       /\ ScenarioRendered

\* the scenario was composed into a prompt
C16_Witness ==
    /\ ScenarioC
    /\ ScenarioRendered

(***************************************************************************)
(* C17: with N = max_indicators and a product's candidates sorted by       *)
(* descending z-score, the result holds the top floor(N/2) high and the    *)
(* top floor(N/2) low candidates, the remaining slots are filled with the  *)
(* highest-z candidates not yet taken, the result has exactly              *)
(* min(N, number of candidates) entries, and no other choice of as many    *)
(* high and low candidates would be more balanced.                         *)
(***************************************************************************)
\* the sorted candidates the engine has for product pid
CandidatesOf(pid) ==
    LET lcia  == CollectModules(LciaRowsOf(sig_ids), <<>>, TRUE)
        evals == SelectSeq(Evaluations(DGet(lcia, pid), CategoryOf(pid)), IsCandidate)
    IN  SortByZ([i \in 1..Len(evals) |-> evals[i].ind])

KeyOf(ind) ==
    <<ind.indicator_key, ind.module>>

KeysOf(inds) ==
    {KeyOf(inds[i]) : i \in 1..Len(inds)}

\* the (indicator key, module) pairs of a product's result
ResultKeys(inds) ==
    UNION { {<<inds[i].k, inds[i].v.modules[j].k>> : j \in 1..Len(inds[i].v.modules)} :
            i \in 1..Len(inds) }

StageRank(c) ==
    IF c.op = "classify" THEN 1
    ELSE IF c.svc = "embedding" THEN 2
    ELSE IF c.svc \in {"store", "db"} THEN 3
    ELSE 4

\* the arguments of an evidence query
QueryArgs(c) ==
    <<c.op, c.ids, c.limit, c.term>>

OrderedCalls(cs) ==
    /\ \A i, j \in 1..Len(cs) : i < j => StageRank(cs[i]) <= StageRank(cs[j])
    /\ \A i, j \in 1..Len(cs) :
          (i # j /\ StageRank(cs[i]) = StageRank(cs[j])) => StageRank(cs[i]) = 3

CapabilityFailed ==
    /\ calls # <<>>
    /\ calls[Len(calls)].svc \in {"embedding", "llm"}
    /\ calls[Len(calls)].op \in {"encode", "generate"}
    /\ ~calls[Len(calls)].ok

C11_NonLeakingFailureMessage ==
    (pc = "done" /\ CapabilityFailed) =>
       /\ response.detail = ""
       /\ query_log.detail \in ErrorTexts

(***************************************************************************)
(* C19: a failed write of the audit record is logged by the logger and     *)
(* does not reach the handler: the response is the one that belongs to     *)
(* the record, whether or not the record was written.                      *)
(***************************************************************************)
\* the response the handler returns next to a log_query(record) call
ResponseFor(record) ==
    IF record.error = "Question cannot be empty."
    THEN JSONResponse(400, "Question cannot be empty.", "")
    ELSE IF record.error = "Embedding model is not available. Please try again later."
    THEN JSONResponse(503, "Embedding model is not available. Please try again later.", "")
    ELSE IF record.error = "Failed to classify question"
    THEN JSONResponse(500, "An error occurred processing your question.", "")
    ELSE IF record.error = "Error during embedding"
    THEN JSONResponse(500, "Failed to process your question", record.detail)
    ELSE IF record.error = "No relevant chunks found"
    THEN JSONResponse(200, NoChunksMsg, "")
    ELSE IF record.error = RetrievalErrorMsg
    THEN JSONResponse(500, RetrievalErrorMsg, record.detail)
    ELSE IF record.error = "LLM returned invalid answer"
    THEN JSONResponse(200, "I'm sorry, I couldn't generate a proper response. Please try again.", "")
    ELSE IF record.error = "Inference failed"
    THEN JSONResponse(503, "I'm sorry, I'm having trouble generating a response right now. Please try again later.", record.detail)
    ELSE JSONResponse(200, "answer", "")

C19_LogFailureNeverPropagates ==
    pc = "done" =>
       /\ response = ResponseFor(query_log)
       /\ log_path = <<>> <=> log_errors = 1
       /\ log_path # <<>> => DHas(query_logs, log_path[1])

\* the record of an answered question could not be written and the answer
\* was returned all the same
C19_Witness ==
    /\ pc = "done"
    /\ log_path = <<>>
    /\ log_errors = 1
    /\ query_logs = <<>>
    /\ response = JSONResponse(200, "answer", "")

(***************************************************************************)
(* C20: requests served at the same time do not disturb each other: the    *)
(* debug file a request wrote still holds its evidence while it composes   *)
(* and generates, and the audit record it persisted is its own.            *)
(***************************************************************************)
C20_RequestsIsolated ==
    /\ pc \in {"compose", "generate"} => fetched_chunks = chunks
    /\ (pc = "done" /\ log_path # <<>>) =>
          /\ DHas(query_logs, log_path[1])
          /\ DGet(query_logs, log_path[1]) = query_log

(***************************************************************************)
(* C21: the engine called twice with the same product ids and the same     *)
(* max_indicators over the same module amounts, statistics and indicator   *)
(* metadata returns the same output both times, the selected entries in    *)
(* the same order.                                                         *)
(***************************************************************************)
C21_EngineIdempotent ==
    pc = "sig_again" => sig_again = sig_result

(***************************************************************************)
(* C22: candidates of one product with equal z-scores are ordered by       *)
(* indicator key and then by module code, so the entries selected under    *)
(* the max_indicators cut-off are those of that order, whatever order the  *)
(* store returned the rows in.                                             *)
(***************************************************************************)
\* lexicographic position of the indicator keys and module codes in use
KeyRank(key) ==
    CASE key = "AP" -> 1 [] key = "GWP" -> 2 [] key = "ODP" -> 3 [] OTHER -> 4

ModuleRank(module) ==
    CASE module = "A1-A3" -> 1 [] module = "C1" -> 2 [] OTHER -> 3

\* a comes before b: larger z-score, or the same z-score and the smaller
\* (indicator key, module code)
TieBefore(a, b) ==
    \/ FracGT(a.z_score, b.z_score)
    \/ /\ ~FracGT(b.z_score, a.z_score)
       /\ \/ KeyRank(a.indicator_key) < KeyRank(b.indicator_key)
          \/ /\ a.indicator_key = b.indicator_key
             /\ ModuleRank(a.module) < ModuleRank(b.module)

RECURSIVE InsertTieBroken(_, _)
InsertTieBroken(sorted, ind) ==
    IF sorted = <<>> THEN <<ind>>
    ELSE IF TieBefore(ind, Head(sorted))
         THEN <<ind>> \o sorted
         ELSE <<Head(sorted)>> \o InsertTieBroken(Tail(sorted), ind)

RECURSIVE SortTieBroken(_)
SortTieBroken(inds) ==
    IF inds = <<>> THEN <<>>
    ELSE InsertTieBroken(SortTieBroken(Tail(inds)), Head(inds))

C22_TieBreakByKeyThenModule ==
    (pc = "sig_done" /\ calls[1].ok) =>
       \A p \in 1..Len(sig_result) :
          ResultKeys(sig_result[p].v) =
             KeysOf(SelectIndicators(SortTieBroken(CandidatesOf(sig_result[p].k)),
                                     sig_max))

(***************************************************************************)
(* C23: a candidate's percentile is (value - min) / (max - min) when the   *)
(* range is defined and not zero and 0.5 otherwise, and a statistic        *)
(* without min or max costs no product its results: every categorised      *)
(* product with module amounts has its entry in the output.                *)
(***************************************************************************)
\* the percentile the rule gives a value under statistic row sr
RulePercentile(value, sr) ==
    IF sr.min = <<>> \/ sr.max = <<>> THEN <<1, 2>>
    ELSE IF sr.max[1] - sr.min[1] = 0 THEN <<1, 2>>
    ELSE <<value - sr.min[1], sr.max[1] - sr.min[1]>>

\* the products of the call that have a category and at least one joined row
ProcessedIds ==
    {pid \in Range(sig_ids) :
        HasCategory(pid) /\ DHas(CollectModules(LciaRowsOf(sig_ids), <<>>, TRUE), pid)}

C23_PercentileTotal ==
    (pc = "sig_done" /\ calls[1].ok) =>
       /\ \A pid \in ProcessedIds : DHas(sig_result, pid)
       /\ \A p \in 1..Len(sig_result) :
             \A i \in 1..Len(sig_result[p].v) :
                LET data == sig_result[p].v[i]
                IN  \A j \in 1..Len(data.v.significance) :
                       LET m  == data.v.significance[j]
                           sr == StatRow(data.k, m.k, CategoryOf(sig_result[p].k))
                       IN  m.v.percentile =
                              RulePercentile(DGet(data.v.modules, m.k)[1], sr[1])

(***************************************************************************)
(* C24: an entry of the significance output has a non-null, non-zero       *)
(* amount and a statistic row of the product's category, indicator key and *)
(* module whose std-dev is neither null nor zero.                          *)
(***************************************************************************)
C24_CandidateConditions ==
    (pc = "sig_done" /\ calls[1].ok) =>
       \A p \in 1..Len(sig_result) :
          \A e \in EntriesOf(sig_result, sig_result[p].k) :
             LET sr == StatRow(e[1], e[2], CategoryOf(sig_result[p].k))
             IN  /\ e[3] # <<>>
                 /\ e[3] # <<0>>
                 /\ sr # <<>>
                 /\ sr[1].std_dev # <<>>
                 /\ sr[1].std_dev # <<0>>

(***************************************************************************)
(* get_combined_indicators: the caller-selected indicators of each product *)
(* and, from the product's other indicators, module amounts that lie at    *)
(* least one standard deviation from the category mean                     *)
(***************************************************************************)
RECURSIVE CollectAmounts(_, _, _)
\* the row loops of get_combined_indicators: a row whose amount is NULL (or,
\* with skip_zero, 0) is passed over before anything is created for it
CollectAmounts(rows, acc, skip_zero) ==
    IF rows = <<>> THEN acc
    ELSE LET row == Head(rows)
         IN  IF row.amount = <<>> \/ (skip_zero /\ row.amount = <<0>>)
             THEN CollectAmounts(Tail(rows), acc, skip_zero)
             ELSE LET acc1  == IF DHas(acc, row.process_id) THEN acc
                               ELSE DPut(acc, row.process_id, <<>>)
                      inds  == DGet(acc1, row.process_id)
                      inds1 == IF DHas(inds, row.indicator_key) THEN inds
                               ELSE DPut(inds, row.indicator_key,
                                         [unit |-> row.unit, modules |-> <<>>])
                      data  == DGet(inds1, row.indicator_key)
                  IN  CollectAmounts(Tail(rows),
                         DPut(acc1, row.process_id,
                              DPut(inds1, row.indicator_key,
                                   [data EXCEPT !.modules =
                                       DPut(@, row.module, row.amount)])),
                         skip_zero)

\* the statistic test of one module amount: TRUE when the amount is kept
is_significant(key, module, val, cat) ==
    LET sr == StatRow(key, module, cat)
    IN  /\ sr # <<>>
        /\ sr[1].mean # <<>>
        /\ sr[1].std_dev # <<>>
        /\ sr[1].std_dev # <<0>>
        /\ ~(abs_deviation(val, sr[1].mean[1]) < Abs(sr[1].std_dev[1]))

RECURSIVE ExtraModules(_, _, _, _, _, _)
\* the inner loop over one indicator's modules; st is [inds, count], the
\* product's result dictionary and its counter; `break` ends this loop only
ExtraModules(key, unit, modules, cat, st, max_extra) ==
    IF modules = <<>> THEN st
    ELSE LET module == Head(modules).k
             val    == Head(modules).v[1]
         IN  IF ~is_significant(key, module, val, cat)
             THEN ExtraModules(key, unit, Tail(modules), cat, st, max_extra)
             ELSE LET inds1 == IF DHas(st.inds, key) THEN st.inds
                               ELSE DPut(st.inds, key, [unit |-> unit, modules |-> <<>>])
                      data  == DGet(inds1, key)
                      st1   == [inds  |-> DPut(inds1, key,
                                               [data EXCEPT !.modules =
                                                   DPut(@, module, <<val>>)]),
                                count |-> st.count + 1]
                  IN  IF st1.count >= max_extra THEN st1
                      ELSE ExtraModules(key, unit, Tail(modules), cat, st1, max_extra)

RECURSIVE ExtraIndicators(_, _, _, _, _)
\* the loop over one product's indicators of full_data
ExtraIndicators(indicators, selected_indicators, cat, st, max_extra) ==
    IF indicators = <<>> THEN st
    ELSE LET key  == Head(indicators).k
             data == Head(indicators).v
         IN  IF key \in Range(selected_indicators) \/ DHas(st.inds, key)
             THEN ExtraIndicators(Tail(indicators), selected_indicators, cat, st, max_extra)
             ELSE ExtraIndicators(Tail(indicators), selected_indicators, cat,
                                  ExtraModules(key, data.unit, data.modules, cat, st,
                                               max_extra),
                                  max_extra)

RECURSIVE ExtraProducts(_, _, _, _)
\* the loop over the products of full_data; count starts at 0 for each
ExtraProducts(full_data, selected_indicators, product_inds, max_extra) ==
    IF full_data = <<>> THEN product_inds
    ELSE LET pid == Head(full_data).k
         IN  IF ~HasCategory(pid)
             THEN ExtraProducts(Tail(full_data), selected_indicators, product_inds,
                                max_extra)
             ELSE LET st == ExtraIndicators(Head(full_data).v, selected_indicators,
                                            CategoryOf(pid),
                                            [inds  |-> DGet(product_inds, pid),
                                             count |-> 0],
                                            max_extra)
                  IN  ExtraProducts(Tail(full_data), selected_indicators,
                                    DPut(product_inds, pid, st.inds), max_extra)

\* get_combined_indicators: [raised, value]; when the connection cannot be
\* opened the finally clause closes a cursor that was never bound and the
\* NameError replaces the {} of the except clause
get_combined_indicators(ids, selected_indicators, max_extra, up) ==
    IF ids = <<>> THEN [raised |-> FALSE, value |-> <<>>]
    ELSE IF ~up THEN [raised |-> TRUE, value |-> <<>>]
    ELSE LET wanted(row) == row.indicator_key \in Range(selected_indicators)
             \* {pid: {} for pid in document_ids}, the ids being distinct
             empty       == [i \in 1..Len(ids) |-> [k |-> ids[i], v |-> <<>>]]
             chosen      == CollectAmounts(SelectSeq(LciaRowsOf(ids), wanted),
                                           empty, FALSE)
             full_data   == CollectAmounts(LciaRowsOf(ids), <<>>, TRUE)
         IN  [raised |-> FALSE,
              value  |-> ExtraProducts(full_data, selected_indicators, chosen, max_extra)]

\* get_combined_indicators(ids, selected, n)
CombinedCall ==
    /\ pc = "sig"
    /\ \E ids \in SigIdChoices, selected \in IndicatorIdChoices,
          n \in 0..MaxIndicators, up \in BOOLEAN :
         LET out == get_combined_indicators(ids, selected, n, up)
         IN  /\ sig_ids' = ids
             /\ indicator_ids' = selected
             /\ sig_max' = n
             /\ sig_result' = out.value
             /\ calls' = <<DbCall("combined", ids, "first", up)>>
             /\ pc' = IF out.raised THEN "combined_raised" ELSE "combined_done"
    /\ UNCHANGED <<envvars, raw_question, question, document_ids, raw_response,
                   category, retrieved, prompt, response, logvars, fetched_chunks,
                   sig_again>>

CombinedNext ==
    \/ SigAddRow
    \/ CombinedCall

CombinedSpec ==
    SigInit /\ [][CombinedNext]_vars

(***************************************************************************)
(* C25: a product's result of get_combined_indicators holds every module   *)
(* amount of the caller-selected indicators and at most max_extra (key,    *)
(* module) entries of other indicators.                                    *)
(***************************************************************************)
\* the entries of a product's result whose indicator the caller did not select
ExtrasOf(pid) ==
    {e \in EntriesOf(sig_result, pid) : e[1] \notin Range(indicator_ids)}

C25_ExtrasWithinBudget ==
    pc = "combined_done" =>
       /\ \A i \in 1..Len(lcia_rows) :
             LET row == lcia_rows[i]
             IN  (/\ row.process_id \in Range(sig_ids)
                  /\ row.indicator_key \in Range(indicator_ids)
                  /\ row.amount # <<>>)
                 => \E e \in EntriesOf(sig_result, row.process_id) :
                       e[1] = row.indicator_key /\ e[2] = row.module
       /\ \A pid \in Range(sig_ids) : Cardinality(ExtrasOf(pid)) <= sig_max

(***************************************************************************)
(* C26: every evidence list a store query returned (theory, filtered and   *)
(* unfiltered product evidence, keyword-matched product evidence) is in    *)
(* ascending order of distance to the question vector and holds no chunk   *)
(* whose text is shorter than the minimum text length, taken here as 30    *)
(* characters (the shortest stored product-evidence chunk has 25).         *)
(***************************************************************************)
\* the stored row of a chunk
RowOfChunk(c) ==
    CHOOSE row \in Range(embeddings) : row.chunk = c

RECURSIVE EvidenceLists(_, _)
\* the evidence list of each call in cs, cut out of what was collected
EvidenceLists(cs, collected) ==
    IF cs = <<>> THEN <<>>
    ELSE <<[call |-> Head(cs), list |-> Take(collected, Head(cs).n)]>>
         \o EvidenceLists(Tail(cs),
                          SubSeq(collected, Head(cs).n + 1, Len(collected)))

AscendingDistance(list) ==
    \A i, j \in 1..Len(list) :
       i < j => RowOfChunk(list[i]).dist <= RowOfChunk(list[j]).dist

C26_OrderedAndLongEnough ==
    pc \in {"write_chunks", "compose", "generate", "done"} =>
       LET lists == EvidenceLists(calls, chunks)
       IN  \A k \in 1..Len(lists) :
              lists[k].call.svc = "store" =>
                 /\ AscendingDistance(lists[k].list)
                 /\ \A i \in 1..Len(lists[k].list) :
                       RowOfChunk(lists[k].list[i]).len >= 30

(***************************************************************************)
(* C27: a request that returned a response passed exactly one record to    *)
(* log_query, whichever way it ended (validation failure, embedding model  *)
(* unavailable, embedding failure, retrieval error, empty evidence,        *)
(* invalid answer, generation failure, success), the record being the one  *)
(* of that outcome; before the response no record was passed.              *)
(***************************************************************************)
C27_ExactlyOneAuditRecord ==
    /\ response.status # 0 => (pc = "done" /\ log_calls = <<query_log>>)
    /\ response.status = 0 => (pc # "done" /\ log_calls = <<>>)

\* a request ended by the except clause of the retrieval step with its one
\* record, which could not be written
C27_Witness ==
    /\ pc = "done"
    /\ response.status = 500
    /\ query_log.error = RetrievalErrorMsg
    /\ Len(log_calls) = 1
    /\ log_path = <<>>

(***************************************************************************)
(* C28: whatever the category, a prompt that shows per-module indicator    *)
(* values (a "Notable Indicator Values" block) also contains the           *)
(* module-integrity clause and the life-cycle-module glossary.             *)
(***************************************************************************)
C28_ValuesComeWithModuleClauses ==
    \A n \in 1..Len(prompt) :
       IndicatorLines(prompt[n]) # <<>> =>
          /\ HasPart(prompt[n], module_integrity_warning)
          /\ HasPart(prompt[n], module_explanation)

(***************************************************************************)
(* C29: every entry of the significance output is either high or low, not  *)
(* both and not neither, and has a z-score above 0: a module amount equal  *)
(* to the category mean is never returned.                                 *)
(***************************************************************************)
C29_EntriesDifferFromMean ==
    (pc = "sig_done" /\ calls[1].ok) =>
       \A p \in 1..Len(sig_result) :
          \A i \in 1..Len(sig_result[p].v) :
             \A j \in 1..Len(sig_result[p].v[i].v.significance) :
                LET sig == sig_result[p].v[i].v.significance[j].v
                IN  /\ sig.is_high # sig.is_low
                    /\ FracGT(sig.z_score, <<0, 1>>)

(***************************************************************************)
(* C30: what the engine returns for one product of a call is what it       *)
(* returns for that product asked alone: the other products of the call,   *)
(* their amounts and their statistics, remove and change nothing.          *)
(***************************************************************************)
\* the result for pid in a call for pid alone, over the same tables
AloneResult(pid) ==
    get_statistically_important_indicators(<<pid>>, sig_max, TRUE)

C30_ProductsIndependent ==
    (pc = "sig_done" /\ calls[1].ok) =>
       \A pid \in Range(sig_ids) :
          /\ DHas(AloneResult(pid), pid) => DHas(sig_result, pid)
          /\ DHas(sig_result, pid) =>
                DGet(sig_result, pid) = DGet(AloneResult(pid), pid)

====
